---- MODULE Spec2Model ----
(***************************************************************************)
(* Model of the input mapping engine of nightfall::input                   *)
(* (game/src/input/InputMapping.{h,cpp}, InputDevices.{h,cpp}).            *)
(*                                                                         *)
(* float values are modelled as binary floating-point numbers with a       *)
(* significand of FloatDigits bits: the integer n stands for n / Unit, the *)
(* representable values are the n whose magnitude fits the significand     *)
(* after scaling by a power of two, and every operation rounds its exact   *)
(* result to the nearest representable value (ties to even), as every IEEE *)
(* operation does.  Only finite values are modelled.                       *)
(***************************************************************************)
EXTENDS Integers, Sequences, FiniteSets, TLC

VARIABLES
    actions,       \* InputMapping::_actions : id -> RuntimeAction
    op,            \* the member function called last
    arg_action,    \* its action id argument (rebind, evaluate_action)
    arg_bindings,  \* its binding list argument (rebind)
    arg_spec,      \* its InputMappingSpec argument (load)
    arg_json,      \* the document FromJson was given, parsed (DemoLevel::load)
    raw,           \* its RawInputState argument (evaluate, evaluate_action)
    ret_states,    \* InputState::_states returned by evaluate
    ret_state,     \* ActionState returned by evaluate_action
    ret_lookup,    \* what the client read from the InputState it holds
    last_edge,     \* history: the synthetic edge each analog action emitted last
    error          \* the exception the call ended with, "" when it returned

vars ==
    <<actions, op, arg_action, arg_bindings, arg_spec, arg_json, raw, ret_states, ret_state,
      ret_lookup, last_edge, error>>

----------------------------------------------------------------------------
(* float                                                                   *)

\* the number of bits of the significand (FLT_MANT_DIG of the model)
FloatDigits == 4

Unit == 2 ^ FloatDigits

One == Unit
Half == Unit \div 2

Fabs(x) == IF x < 0 THEN -x ELSE x

\* std::clamp(v, lo, hi)
Clamp(v, lo, hi) == IF v < lo THEN lo ELSE IF hi < v THEN hi ELSE v

\* n / d for d > 0, rounded to the nearest integer, ties to even
RoundDiv(n, d) ==
    LET q == n \div d
        r == n - q * d
    IN  IF 2 * r < d THEN q
        ELSE IF 2 * r > d THEN q + 1
        ELSE IF q % 2 = 0 THEN q ELSE q + 1

\* the spacing of the representable values around the magnitude a
RECURSIVE Ulp(_)
Ulp(a) == IF a < Unit THEN 1 ELSE 2 * Ulp(a \div 2)

\* the representable value nearest to n / d, for d > 0
FloatRound(n, d) ==
    LET ulp == Ulp(Fabs(n) \div d)
    IN  RoundDiv(n, d * ulp) * ulp

FAdd(a, b) == FloatRound(a + b, 1)
FSub(a, b) == FloatRound(a - b, 1)
FMul(a, b) == FloatRound(a * b, Unit)
FDiv(a, b) == FloatRound(a * Unit, b)

\* the literal 1e-3f of compute_state, rounded to the nearest representable value
ActiveEpsilon == RoundDiv(Unit, 1000)

----------------------------------------------------------------------------
(* InputDevices.h                                                          *)

ButtonState(pressed, was_pressed) == [pressed |-> pressed, was_pressed |-> was_pressed]

kEmptyButton == ButtonState(FALSE, FALSE)

just_pressed(b) == b.pressed /\ ~b.was_pressed
just_released(b) == ~b.pressed /\ b.was_pressed

\* mutant: a control that is not in the map reads as a button released in this frame
get_missing_released(map, control) ==
    IF control \in DOMAIN map THEN map[control] ELSE ButtonState(FALSE, TRUE)

\* RawKeyboardState::get, RawMouseState::get, RawGamepadState::get_button
get(map, control) == IF control \in DOMAIN map THEN map[control] ELSE kEmptyButton

\* RawGamepadState::axis_value with its default default_value = 0.0f
axis_value(axes, axis) == IF axis \in DOMAIN axes THEN axes[axis] ELSE 0

EmptyMap == [x \in {} |-> 0]

RawMouseState(buttons, delta_x) ==
    [buttons |-> buttons, position_x |-> 0, position_y |-> 0,
     delta_x |-> delta_x, delta_y |-> 0, wheel_delta |-> 0]

RawInputState(keys, mouse, axes, delta_time) ==
    [keyboard |-> [keys |-> keys],
     mouse |-> mouse,
     gamepad |-> [buttons |-> EmptyMap, axes |-> axes],
     delta_time |-> delta_time]

\* RawInputState{}
DefaultRaw == RawInputState(EmptyMap, RawMouseState(EmptyMap, 0), EmptyMap, 0)

----------------------------------------------------------------------------
(* InputMapping.h                                                          *)

BindingDescriptor(device, kind, control, scale, deadzone, toggle, interpretation) ==
    [device |-> device, kind |-> kind, control |-> control, scale |-> scale,
     deadzone |-> deadzone, toggle |-> toggle, interpretation |-> interpretation]

ActionBindingSpec(id, bindings, smoothing_window, analog_threshold) ==
    [id |-> id, bindings |-> bindings, smoothing_window |-> smoothing_window,
     analog_threshold |-> analog_threshold]

\* ActionState{}
DefaultActionState == [value |-> 0, active |-> FALSE, triggered |-> FALSE, released |-> FALSE]

RuntimeBinding(descriptor) == [descriptor |-> descriptor]

\* a default-constructed RuntimeAction holding the given spec and bindings
RuntimeAction(spec, bindings) ==
    [spec |-> spec, bindings |-> bindings, smoothed_value |-> 0, previous_value |-> 0,
     previous_active |-> FALSE, toggle_state |-> FALSE, toggle_scale |-> One]

----------------------------------------------------------------------------
(* InputMapping.cpp: reading the devices                                   *)

ButtonOf(descriptor, state) ==
    CASE descriptor.device = "Keyboard" -> get(state.keyboard.keys, descriptor.control)
      [] descriptor.device = "Mouse"    -> get(state.mouse.buttons, descriptor.control)
      [] descriptor.device = "Gamepad"  -> get(state.gamepad.buttons, descriptor.control)

extract_axis_value(descriptor, state) ==
    CASE descriptor.device = "Keyboard" ->
            IF get(state.keyboard.keys, descriptor.control).pressed THEN descriptor.scale ELSE 0
      [] descriptor.device = "Mouse" ->
            IF descriptor.control \in {"x", "delta_x"} THEN FMul(state.mouse.delta_x, descriptor.scale)
            ELSE IF descriptor.control \in {"y", "delta_y"} THEN FMul(state.mouse.delta_y, descriptor.scale)
            ELSE IF descriptor.control \in {"wheel", "scroll"} THEN FMul(state.mouse.wheel_delta, descriptor.scale)
            ELSE IF descriptor.control = "position_x" THEN FMul(state.mouse.position_x, descriptor.scale)
            ELSE IF descriptor.control = "position_y" THEN FMul(state.mouse.position_y, descriptor.scale)
            ELSE 0
      [] descriptor.device = "Gamepad" ->
            FMul(axis_value(state.gamepad.axes, descriptor.control), descriptor.scale)

\* mutant: the toggle flips on the level of the control, not on its press edge
extract_toggle_level(descriptor, state) ==
    IF ~descriptor.toggle THEN FALSE ELSE ButtonOf(descriptor, state).pressed

extract_toggle_transition(descriptor, state) ==
    IF ~descriptor.toggle THEN FALSE ELSE just_pressed(ButtonOf(descriptor, state))

extract_button_pressed(descriptor, state) == ButtonOf(descriptor, state).pressed

extract_button_triggered(descriptor, state) == just_pressed(ButtonOf(descriptor, state))

extract_button_released(descriptor, state) == just_released(ButtonOf(descriptor, state))

----------------------------------------------------------------------------
(* InputMapping::compute_state                                             *)

\* the locals of compute_state before the loop over the bindings
InitialLocals(action) ==
    [value |-> 0, any_pressed |-> FALSE, any_triggered |-> FALSE, any_released |-> FALSE,
     has_toggle |-> FALSE, toggle_value |-> action.toggle_state,
     toggle_scale |-> action.toggle_scale,
     toggle_turned_on |-> FALSE, toggle_turned_off |-> FALSE]

\* mutant: the flags of a Button binding replace those of the bindings before it
ButtonEdgesOverwriting(l, descriptor, state) ==
    [l EXCEPT !.any_pressed = extract_button_pressed(descriptor, state),
              !.any_triggered = extract_button_triggered(descriptor, state),
              !.any_released = extract_button_released(descriptor, state)]

\* the three flags a Button binding ORs into the locals
ButtonEdges(l, descriptor, state) ==
    [l EXCEPT !.any_pressed = l.any_pressed \/ extract_button_pressed(descriptor, state),
              !.any_triggered = l.any_triggered \/ extract_button_triggered(descriptor, state),
              !.any_released = l.any_released \/ extract_button_released(descriptor, state)]

\* mutant: only the first press edge of a frame flips the toggle
ButtonToggleOncePerFrame(l, descriptor, transition) ==
    IF transition /\ ~l.toggle_turned_on /\ ~l.toggle_turned_off
    THEN [l EXCEPT !.has_toggle = TRUE, !.toggle_scale = descriptor.scale,
                   !.toggle_value = ~l.toggle_value,
                   !.toggle_turned_on = ~l.toggle_value,
                   !.toggle_turned_off = l.toggle_value]
    ELSE [l EXCEPT !.has_toggle = TRUE, !.toggle_scale = descriptor.scale]

\* mutant: the toggle scale is taken from the binding that flips the toggle
ButtonToggleScaleOnFlip(l, descriptor, transition) ==
    IF transition
    THEN [l EXCEPT !.has_toggle = TRUE, !.toggle_scale = descriptor.scale,
                   !.toggle_value = ~l.toggle_value,
                   !.toggle_turned_on = l.toggle_turned_on \/ ~l.toggle_value,
                   !.toggle_turned_off = l.toggle_turned_off \/ l.toggle_value]
    ELSE [l EXCEPT !.has_toggle = TRUE]

\* the if (descriptor.toggle) branch, given what extract_toggle_transition returned
ButtonToggle(l, descriptor, transition) ==
    IF transition
    THEN [l EXCEPT !.has_toggle = TRUE, !.toggle_scale = descriptor.scale,
                   !.toggle_value = ~l.toggle_value,
                   !.toggle_turned_on = l.toggle_turned_on \/ ~l.toggle_value,
                   !.toggle_turned_off = l.toggle_turned_off \/ l.toggle_value]
    ELSE [l EXCEPT !.has_toggle = TRUE, !.toggle_scale = descriptor.scale]

\* mutant: a pressed button assigns its scale to the value instead of adding it
ButtonBindingAssigning(l, descriptor, state) ==
    IF descriptor.toggle
    THEN ButtonToggle(ButtonEdges(l, descriptor, state), descriptor,
                      extract_toggle_transition(descriptor, state))
    ELSE [ButtonEdges(l, descriptor, state) EXCEPT
            !.value = IF extract_button_pressed(descriptor, state) THEN descriptor.scale ELSE @]

\* one iteration of the loop for a Button binding
ButtonBinding(l, descriptor, state) ==
    IF descriptor.toggle
    THEN ButtonToggle(ButtonEdges(l, descriptor, state), descriptor,
                      extract_toggle_transition(descriptor, state))
    ELSE [ButtonEdges(l, descriptor, state) EXCEPT
            !.value = FAdd(@, IF extract_button_pressed(descriptor, state)
                              THEN descriptor.scale ELSE 0)]

\* mutant: a reading on the deadzone itself passes the filter
DeadzonedBelow(read, deadzone) == IF Fabs(read) < deadzone THEN 0 ELSE read

\* the reading of an axis after the deadzone has zeroed it
Deadzoned(read, deadzone) == IF Fabs(read) <= deadzone THEN 0 ELSE read

\* the else branch of the interpretation test: the filtered reading is added
AnalogAxis(l, descriptor, axis) ==
    [l EXCEPT !.value = FAdd(l.value, axis),
              !.any_pressed = l.any_pressed \/ (Fabs(axis) > descriptor.deadzone)]

\* mutant: the edges of a digital axis are taken against the previous active flag
DigitalAxisAgainstActive(l, descriptor, action, active, axis) ==
    [l EXCEPT !.any_pressed = l.any_pressed \/ active,
              !.any_triggered = l.any_triggered \/ (active /\ ~action.previous_active),
              !.any_released = l.any_released \/ (~active /\ action.previous_active),
              !.value = IF active
                        THEN FAdd(l.value, FMul(descriptor.scale, IF axis >= 0 THEN One ELSE -One))
                        ELSE l.value]

\* mutant: a digital axis contributes the magnitude of its scale with the sign
\* of the scaled reading
DigitalAxisByMagnitude(l, descriptor, action, active, axis) ==
    [l EXCEPT !.any_pressed = l.any_pressed \/ active,
              !.any_triggered = l.any_triggered
                    \/ (active /\ Fabs(action.previous_value) <= descriptor.deadzone),
              !.any_released = l.any_released
                    \/ (~active /\ Fabs(action.previous_value) > descriptor.deadzone),
              !.value = IF active
                        THEN FAdd(l.value,
                                  FMul(Fabs(descriptor.scale), IF axis >= 0 THEN One ELSE -One))
                        ELSE l.value]

\* the Digital branch: the scale with the sign of the reading, and the edges
DigitalAxis(l, descriptor, action, active, axis) ==
    [l EXCEPT !.any_pressed = l.any_pressed \/ active,
              !.any_triggered = l.any_triggered
                    \/ (active /\ Fabs(action.previous_value) <= descriptor.deadzone),
              !.any_released = l.any_released
                    \/ (~active /\ Fabs(action.previous_value) > descriptor.deadzone),
              !.value = IF active
                        THEN FAdd(l.value, FMul(descriptor.scale, IF axis >= 0 THEN One ELSE -One))
                        ELSE l.value]

\* the two branches of the interpretation test, given the filtered reading
AxisBranch(l, descriptor, action, axis) ==
    IF descriptor.interpretation = "Digital"
    THEN DigitalAxis(l, descriptor, action, Fabs(axis) > descriptor.deadzone, axis)
    ELSE AnalogAxis(l, descriptor, axis)

\* mutant: the interpretation is not examined, every axis binding adds its filtered reading
AxisBindingAlwaysAnalog(l, descriptor, action, state) ==
    AnalogAxis(l, descriptor,
               Deadzoned(extract_axis_value(descriptor, state), descriptor.deadzone))

\* one iteration of the loop for an Axis or Pointer binding
AxisBinding(l, descriptor, action, state) ==
    AxisBranch(l, descriptor, action,
               Deadzoned(extract_axis_value(descriptor, state), descriptor.deadzone))

BindingStep(l, descriptor, action, state) ==
    IF descriptor.kind = "Button"
    THEN ButtonBinding(l, descriptor, state)
    ELSE AxisBinding(l, descriptor, action, state)

\* mutant: the loop runs over the binding list the action was loaded with
RECURSIVE FoldBindingsOfSpec(_, _, _, _)
FoldBindingsOfSpec(l, i, action, state) ==
    IF i > Len(action.spec.bindings) THEN l
    ELSE FoldBindingsOfSpec(BindingStep(l, action.spec.bindings[i], action, state),
                            i + 1, action, state)

\* the loop over action.bindings, in declared order, from binding i on
RECURSIVE FoldBindings(_, _, _, _)
FoldBindings(l, i, action, state) ==
    IF i > Len(action.bindings) THEN l
    ELSE FoldBindings(BindingStep(l, action.bindings[i].descriptor, action, state),
                      i + 1, action, state)

\* the locals after the if (has_toggle) ... else ... block
ToggleFold(l) ==
    IF l.has_toggle
    THEN [l EXCEPT !.value = IF l.toggle_value THEN FAdd(l.value, l.toggle_scale) ELSE l.value,
                   !.any_pressed = l.any_pressed \/ l.toggle_value,
                   !.any_triggered = l.any_triggered \/ l.toggle_turned_on,
                   !.any_released = l.any_released \/ l.toggle_turned_off]
    ELSE l

\* mutant: without a toggle binding the toggle memory is left as it was
ToggleCommitKeeping(action, l) ==
    IF l.has_toggle
    THEN [action EXCEPT !.toggle_state = l.toggle_value, !.toggle_scale = l.toggle_scale]
    ELSE action

\* the toggle memory the same block commits
ToggleCommit(action, l) ==
    IF l.has_toggle
    THEN [action EXCEPT !.toggle_state = l.toggle_value, !.toggle_scale = l.toggle_scale]
    ELSE [action EXCEPT !.toggle_state = FALSE, !.toggle_scale = One]

\* mutant: the accumulated value is not clamped
ClampValueMissing(value) == value

ClampValue(value) == Clamp(value, -One, One)

\* mutant: t is not clamped
SmoothingTUnclamped(delta_time, smoothing_window) == FDiv(delta_time, smoothing_window)

SmoothingT(delta_time, smoothing_window) == Clamp(FDiv(delta_time, smoothing_window), 0, One)

\* mutant: a frame of no length is smoothed too, and leaves the value where it was
SmoothOnEmptyFrame(value, previous_value, smoothing_window, delta_time) ==
    IF smoothing_window > 0
    THEN FAdd(previous_value,
              FMul(FSub(value, previous_value), SmoothingT(delta_time, smoothing_window)))
    ELSE value

\* mutant: the interpolation starts from the target and moves by the remembered value
SmoothFromTarget(value, previous_value, smoothing_window, delta_time) ==
    IF smoothing_window > 0 /\ delta_time > 0
    THEN FAdd(value,
              FMul(FSub(value, previous_value), SmoothingT(delta_time, smoothing_window)))
    ELSE value

Smooth(value, previous_value, smoothing_window, delta_time) ==
    IF smoothing_window > 0 /\ delta_time > 0
    THEN FAdd(previous_value,
              FMul(FSub(value, previous_value), SmoothingT(delta_time, smoothing_window)))
    ELSE value

\* mutant: the action is active by its value alone
IsActiveByValue(any_pressed, smoothed) == Fabs(smoothed) > ActiveEpsilon

IsActive(any_pressed, smoothed) == any_pressed \/ Fabs(smoothed) > ActiveEpsilon

\* mutant: the synthetic trigger looks at the level alone, not at the crossing
TriggeredByLevel(any_triggered, smoothed, previous_value, analog_threshold) ==
    IF ~any_triggered /\ analog_threshold > 0
    THEN Fabs(smoothed) >= analog_threshold
    ELSE any_triggered

\* mutant: the synthetic trigger fires when the value leaves the threshold
TriggeredOnLeaving(any_triggered, smoothed, previous_value, analog_threshold) ==
    IF ~any_triggered /\ analog_threshold > 0
    THEN Fabs(smoothed) < analog_threshold /\ Fabs(previous_value) >= analog_threshold
    ELSE any_triggered

Triggered(any_triggered, smoothed, previous_value, analog_threshold) ==
    IF ~any_triggered /\ analog_threshold > 0
    THEN Fabs(smoothed) >= analog_threshold /\ Fabs(previous_value) < analog_threshold
    ELSE any_triggered

\* std::fabs(x) > analog_threshold * 0.5f: the product with 0.5f is exact in
\* binary floating point, so the comparison is made in halves of the grid
AboveHalf(x, analog_threshold) == 2 * Fabs(x) > analog_threshold

\* mutant: the synthetic release compares with the whole threshold
ReleasedAtThreshold(any_released, smoothed, previous_value, analog_threshold) ==
    IF ~any_released /\ analog_threshold > 0
    THEN Fabs(smoothed) <= analog_threshold /\ Fabs(previous_value) > analog_threshold
    ELSE any_released

Released(any_released, smoothed, previous_value, analog_threshold) ==
    IF ~any_released /\ analog_threshold > 0
    THEN ~AboveHalf(smoothed, analog_threshold)
         /\ AboveHalf(previous_value, analog_threshold)
    ELSE any_released

\* the locals of compute_state after the loop and the toggle block
folded(action, state) == ToggleFold(FoldBindings(InitialLocals(action), 1, action, state))

\* the local `value` of compute_state after the clamp: the target of the smoothing
clamped_value(action, state) == ClampValue(folded(action, state).value)

\* the ActionState returned and the RuntimeAction left, given the locals after the
\* toggle block, the smoothed value and the value written to previous_value
Finish(action, l, smoothed, remembered) ==
    [state |-> [value |-> smoothed,
                active |-> IsActive(l.any_pressed, smoothed),
                triggered |-> Triggered(l.any_triggered, smoothed, action.previous_value,
                                        action.spec.analog_threshold),
                released |-> Released(l.any_released, smoothed, action.previous_value,
                                      action.spec.analog_threshold)],
     action |-> [ToggleCommit(action, l) EXCEPT
                    !.previous_value = remembered,
                    !.previous_active = IsActive(l.any_pressed, smoothed)]]

\* the smoothing of the clamped target and what follows it
SmoothAndFinish(action, state, l, value) ==
    Finish(action, l,
           Smooth(value, action.previous_value, action.spec.smoothing_window, state.delta_time),
           Smooth(value, action.previous_value, action.spec.smoothing_window, state.delta_time))

\* the clamp of the accumulated value and what follows it
ClampAndFinish(action, state, l) == SmoothAndFinish(action, state, l, ClampValue(l.value))

\* mutant: the clamped target, not the smoothed value, is committed as previous_value
compute_state_committing_target(action, state) ==
    LET l == folded(action, state)
        value == ClampValue(l.value)
    IN  Finish(action, l,
               Smooth(value, action.previous_value, action.spec.smoothing_window,
                      state.delta_time),
               value)

\* compute_state: the ActionState it returns and the RuntimeAction it leaves
compute_state(action, state) == ClampAndFinish(action, state, folded(action, state))

----------------------------------------------------------------------------
(* InputState                                                              *)

\* InputState::set_state: the _states it leaves
set_state(states, action, state) ==
    [x \in DOMAIN states \cup {action} |-> IF x = action THEN state ELSE states[x]]

has_action(states, action) == action \in DOMAIN states

\* mutant: state_for reaches the entry with operator[], which inserts a missing id
state_for_inserting(states, action) ==
    IF action \in DOMAIN states
    THEN [states |-> states, state |-> states[action]]
    ELSE [states |-> set_state(states, action, DefaultActionState), state |-> DefaultActionState]

\* InputState::state_for: the ActionState it returns and the _states it leaves
state_for(states, action) ==
    [states |-> states,
     state |-> IF action \in DOMAIN states THEN states[action] ELSE DefaultActionState]

value_or(states, action, fallback) ==
    IF action \in DOMAIN states THEN states[action].value ELSE fallback

\* nothing was read from an InputState
NoLookup == [state |-> DefaultActionState, has_action |-> FALSE, value |-> 0, fallback |-> 0]

----------------------------------------------------------------------------
(* InputMapping: the public member functions                               *)

\* mutant: insert_or_assign, a later entry with the same id replaces the earlier one
EmplaceAssigning(store, id, runtime) ==
    [x \in DOMAIN store \cup {id} |-> IF x = id THEN runtime ELSE store[x]]

\* _actions.emplace(id, runtime): an id already in the map keeps its entry
Emplace(store, id, runtime) ==
    IF id \in DOMAIN store THEN store
    ELSE [x \in DOMAIN store \cup {id} |-> IF x = id THEN runtime ELSE store[x]]

\* the RuntimeAction load builds for one ActionBindingSpec
LoadedAction(action) ==
    RuntimeAction(action, [i \in 1..Len(action.bindings) |-> RuntimeBinding(action.bindings[i])])

\* the loop of load over spec.actions, from entry i on
RECURSIVE LoadFrom(_, _, _)
LoadFrom(store, spec, i) ==
    IF i > Len(spec.actions) THEN store
    ELSE LoadFrom(Emplace(store, spec.actions[i].id, LoadedAction(spec.actions[i])), spec, i + 1)

\* mutant: load does not clear the map
ClearMissing(store) == store

\* _actions.clear()
Clear(store) == EmptyMap

\* InputMapping::load: the _actions it leaves
load(store, spec) == LoadFrom(Clear(store), spec, 1)

\* mutant: rebind reaches the entry with operator[], which inserts a missing id
rebind_inserting(store, action, bindings) ==
    LET found == IF action \in DOMAIN store THEN store[action]
                 ELSE RuntimeAction(ActionBindingSpec("", <<>>, 0, Unit \div 5), <<>>)
    IN  [actions |-> [x \in DOMAIN store \cup {action} |->
                        IF x = action
                        THEN [found EXCEPT !.bindings =
                                [i \in 1..Len(bindings) |-> RuntimeBinding(bindings[i])]]
                        ELSE store[x]],
         error |-> ""]

\* mutant: rebind rebuilds the entry, which resets its memory
rebind_resetting(store, action, bindings) ==
    IF action \notin DOMAIN store
    THEN [actions |-> store, error |-> "unknown action"]
    ELSE [actions |-> [store EXCEPT ![action] =
                            RuntimeAction(store[action].spec,
                                [i \in 1..Len(bindings) |-> RuntimeBinding(bindings[i])])],
          error |-> ""]

\* InputMapping::rebind: the _actions it leaves and the exception it throws
rebind(store, action, bindings) ==
    IF action \notin DOMAIN store
    THEN [actions |-> store, error |-> "unknown action"]
    ELSE [actions |-> [store EXCEPT ![action].bindings =
                            [i \in 1..Len(bindings) |-> RuntimeBinding(bindings[i])]],
          error |-> ""]

\* mutant: the toggle memory is one member of the engine, shared by the actions:
\* an action is evaluated with the toggle state the action visited before it left
RECURSIVE EvaluateFromSharedToggle(_, _, _, _, _)
EvaluateFromSharedToggle(store, result, order, i, state) ==
    IF i > Len(order) THEN [actions |-> store, states |-> result]
    ELSE LET id == order[i]
             seen == IF i = 1 THEN store[id]
                     ELSE [store[id] EXCEPT !.toggle_state = store[order[i - 1]].toggle_state]
             c == compute_state(seen, state)
         IN  EvaluateFromSharedToggle(
                [store EXCEPT ![id] = c.action],
                [x \in DOMAIN result \cup {id} |-> IF x = id THEN c.state ELSE result[x]],
                order, i + 1, state)

\* the loop of evaluate over _actions in the iteration order `order`, from entry i on
RECURSIVE EvaluateFrom(_, _, _, _, _)

\* the rest of the loop once compute_state has given c for the entry order[i]
Visited(store, result, order, i, state, c) ==
    EvaluateFrom([store EXCEPT ![order[i]] = c.action],
                 set_state(result, order[i], c.state),
                 order, i + 1, state)

EvaluateFrom(store, result, order, i, state) ==
    IF i > Len(order) THEN [actions |-> store, states |-> result]
    ELSE Visited(store, result, order, i, state, compute_state(store[order[i]], state))

\* InputMapping::evaluate: the InputState it returns and the _actions it leaves
evaluate(store, order, state) == EvaluateFrom(store, EmptyMap, order, 1, state)

\* mutant: evaluate_action reaches the entry with operator[], which inserts a missing id
evaluate_action_inserting(store, action, state) ==
    LET found == IF action \in DOMAIN store THEN store[action]
                 ELSE RuntimeAction(ActionBindingSpec("", <<>>, 0, Unit \div 5), <<>>)
        c == compute_state(found, state)
    IN  [actions |-> [x \in DOMAIN store \cup {action} |-> IF x = action THEN c.action ELSE store[x]],
         state |-> c.state]

\* mutant: evaluate_action computes on a copy of the entry and leaves its memory as it was
evaluate_action_on_copy(store, action, state) ==
    IF action \notin DOMAIN store
    THEN [actions |-> store, state |-> DefaultActionState]
    ELSE [actions |-> store, state |-> compute_state(store[action], state).state]

\* mutant: evaluate_action commits the value it returns and leaves the toggle as it was
ComputedKeepingToggle(store, action, c) ==
    [actions |-> [store EXCEPT ![action] =
                    [c.action EXCEPT !.toggle_state = store[action].toggle_state,
                                     !.toggle_scale = store[action].toggle_scale]],
     state |-> c.state]

\* what evaluate_action gives for a known id, c being what compute_state gave
Computed(store, action, c) ==
    [actions |-> [store EXCEPT ![action] = c.action], state |-> c.state]

\* InputMapping::evaluate_action: the ActionState it returns and the _actions it leaves
evaluate_action(store, action, state) ==
    IF action \notin DOMAIN store
    THEN [actions |-> store, state |-> DefaultActionState]
    ELSE Computed(store, action, compute_state(store[action], state))

\* the orders in which an unordered_map holding the ids S may be iterated
Orders(S) == {o \in [1..Cardinality(S) -> S] : \A i, j \in 1..Cardinality(S) : o[i] = o[j] => i = j}

----------------------------------------------------------------------------
(* JsonValue: the document JsonParser::parse returns                       *)

JsonNull == [type |-> "null"]
JsonBool(b) == [type |-> "bool", bool |-> b]
JsonNumber(n) == [type |-> "number", number |-> n]
JsonString(text) == [type |-> "string", string |-> text]
JsonArray(items) == [type |-> "array", items |-> items]
JsonObject(members) == [type |-> "object", members |-> members]

\* the outcome of a call that may throw: error is "" when it returned value
Returned(value) == [error |-> "", value |-> value]
Thrown(message) == [error |-> message, value |-> JsonNull]

\* std::stod on the texts a document holds
stod(text) ==
    CASE text = "0.5" -> Returned(Half)
      [] text = "1" -> Returned(One)
      [] OTHER -> Thrown("no conversion")

as_bool(v, fallback) ==
    CASE v.type = "bool" -> v.bool
      [] v.type = "number" -> v.number # 0
      [] v.type = "string" -> v.string \in {"true", "1"}
      [] OTHER -> fallback

as_number(v, fallback) ==
    CASE v.type = "number" -> v.number
      [] v.type = "bool" -> (IF v.bool THEN One ELSE 0)
      [] v.type = "string" -> (IF stod(v.string).error = "" THEN stod(v.string).value ELSE fallback)
      [] OTHER -> fallback

as_string(v) ==
    IF v.type = "string" THEN Returned(v.string) ELSE Thrown("expected JSON string")

as_array(v) ==
    IF v.type = "array" THEN Returned(v.items) ELSE Thrown("expected JSON array")

as_object(v) ==
    IF v.type = "object" THEN Returned(v.members) ELSE Thrown("expected JSON object")

----------------------------------------------------------------------------
(* InputMappingSpec::FromJson                                              *)

parse_binding_kind(text) ==
    CASE text = "axis" -> "Axis"
      [] text = "pointer" -> "Pointer"
      [] OTHER -> "Button"

\* mutant: `binary` is not a token of the interpretation
parse_interpretation_digital_only(text) == IF text = "digital" THEN "Digital" ELSE "Analog"

parse_interpretation(text) == IF text \in {"digital", "binary"} THEN "Digital" ELSE "Analog"

parse_device_kind(text) ==
    CASE text = "mouse" -> "Mouse"
      [] text \in {"gamepad", "controller"} -> "Gamepad"
      [] OTHER -> "Keyboard"

\* the literals 0.1 and 0.2: the defaults of deadzone and analog_threshold
DefaultDeadzone == Unit \div 10
DefaultThreshold == Unit \div 5

\* BindingDescriptor{}
DefaultBinding == BindingDescriptor("Keyboard", "Button", "", One, DefaultDeadzone, FALSE, "Analog")

\* the member of the object, or JsonNull when the object has no such member
Member(object, key) == IF key \in DOMAIN object THEN object[key] ELSE JsonNull

\* mutant: a binding without `control` keeps the empty control name
ParseBindingDefaultControl(binding_value) ==
    IF as_object(binding_value).error # "" THEN Thrown(as_object(binding_value).error)
    ELSE
    LET o == as_object(binding_value).value
        has(key) == key \in DOMAIN o
        device == as_string(Member(o, "device"))
        kind == as_string(Member(o, "kind"))
        control == as_string(Member(o, "control"))
        interpretation == as_string(Member(o, "interpretation"))
    IN  IF has("device") /\ device.error # "" THEN Thrown(device.error)
        ELSE IF has("kind") /\ kind.error # "" THEN Thrown(kind.error)
        ELSE IF has("control") /\ control.error # "" THEN Thrown(control.error)
        ELSE IF has("interpretation") /\ interpretation.error # ""
             THEN Thrown(interpretation.error)
        ELSE Returned(
            [device |-> IF has("device") THEN parse_device_kind(device.value)
                        ELSE DefaultBinding.device,
             kind |-> IF has("kind") THEN parse_binding_kind(kind.value)
                      ELSE DefaultBinding.kind,
             control |-> IF has("control") THEN control.value ELSE DefaultBinding.control,
             scale |-> IF has("scale") THEN as_number(o["scale"], One)
                       ELSE DefaultBinding.scale,
             deadzone |-> IF has("deadzone") THEN as_number(o["deadzone"], DefaultDeadzone)
                          ELSE DefaultBinding.deadzone,
             toggle |-> IF has("toggle") THEN as_bool(o["toggle"], FALSE)
                        ELSE DefaultBinding.toggle,
             interpretation |-> IF has("interpretation")
                                THEN parse_interpretation(interpretation.value)
                                ELSE DefaultBinding.interpretation])

\* the body of the loop over binding_array: the descriptor of one entry, or the throw
ParseBinding(binding_value) ==
    IF as_object(binding_value).error # "" THEN Thrown(as_object(binding_value).error)
    ELSE
    LET o == as_object(binding_value).value
        has(key) == key \in DOMAIN o
        device == as_string(Member(o, "device"))
        kind == as_string(Member(o, "kind"))
        control == as_string(Member(o, "control"))
        interpretation == as_string(Member(o, "interpretation"))
    IN  IF has("device") /\ device.error # "" THEN Thrown(device.error)
        ELSE IF has("kind") /\ kind.error # "" THEN Thrown(kind.error)
        ELSE IF ~has("control") THEN Thrown("binding missing 'control'")
        ELSE IF control.error # "" THEN Thrown(control.error)
        ELSE IF has("interpretation") /\ interpretation.error # ""
             THEN Thrown(interpretation.error)
        ELSE Returned(
            [device |-> IF has("device") THEN parse_device_kind(device.value)
                        ELSE DefaultBinding.device,
             kind |-> IF has("kind") THEN parse_binding_kind(kind.value)
                      ELSE DefaultBinding.kind,
             control |-> control.value,
             scale |-> IF has("scale") THEN as_number(o["scale"], One)
                       ELSE DefaultBinding.scale,
             deadzone |-> IF has("deadzone") THEN as_number(o["deadzone"], DefaultDeadzone)
                          ELSE DefaultBinding.deadzone,
             toggle |-> IF has("toggle") THEN as_bool(o["toggle"], FALSE)
                        ELSE DefaultBinding.toggle,
             interpretation |-> IF has("interpretation")
                                THEN parse_interpretation(interpretation.value)
                                ELSE DefaultBinding.interpretation])

\* the loop over binding_array from entry i on, bindings being the entries before it
RECURSIVE ParseBindings(_, _, _)

\* the rest of the loop once entry i has given the outcome b
BindingParsed(binding_array, i, bindings, b) ==
    IF b.error # "" THEN Thrown(b.error)
    ELSE ParseBindings(binding_array, i + 1, Append(bindings, b.value))

ParseBindings(binding_array, i, bindings) ==
    IF i > Len(binding_array) THEN Returned(bindings)
    ELSE BindingParsed(binding_array, i, bindings, ParseBinding(binding_array[i]))

\* action.id: the member `id`, else the member `action`, else the throw
ActionId(o) ==
    IF "id" \in DOMAIN o THEN as_string(o["id"])
    ELSE IF "action" \in DOMAIN o THEN as_string(o["action"])
    ELSE Thrown("action entry missing 'id'")

\* the ActionBindingSpec of the entry o once its binding loop has given the outcome bindings
ActionParsed(o, id, bindings) ==
    IF bindings.error # "" THEN Thrown(bindings.error)
    ELSE Returned(
        ActionBindingSpec(id, bindings.value,
            IF "smoothing" \in DOMAIN o THEN as_number(o["smoothing"], 0) ELSE 0,
            IF "analog_threshold" \in DOMAIN o
            THEN as_number(o["analog_threshold"], DefaultThreshold)
            ELSE DefaultThreshold))

\* the body of the loop over actions_array for the entry object o
ParseActionObject(o, id, binding_array) ==
    IF id.error # "" THEN Thrown(id.error)
    ELSE IF "bindings" \notin DOMAIN o THEN Thrown("action entry missing 'bindings'")
    ELSE IF binding_array.error # "" THEN Thrown(binding_array.error)
    ELSE ActionParsed(o, id.value, ParseBindings(binding_array.value, 1, <<>>))

\* the body of the loop over actions_array: the ActionBindingSpec of one entry, or the throw
ParseAction(value) ==
    IF as_object(value).error # "" THEN Thrown(as_object(value).error)
    ELSE ParseActionObject(as_object(value).value,
                           ActionId(as_object(value).value),
                           as_array(Member(as_object(value).value, "bindings")))

\* the loop over actions_array from entry i on, entries being the actions before it
RECURSIVE ParseActions(_, _, _)

\* the rest of the loop once entry i has given the outcome a
EntryParsed(actions_array, i, entries, a) ==
    IF a.error # "" THEN Thrown(a.error)
    ELSE ParseActions(actions_array, i + 1, Append(entries, a.value))

ParseActions(actions_array, i, entries) ==
    IF i > Len(actions_array) THEN Returned([actions |-> entries])
    ELSE EntryParsed(actions_array, i, entries, ParseAction(actions_array[i]))

\* InputMappingSpec::FromJson on the parsed document: the spec it returns, or the throw
FromJson(root) ==
    IF as_object(root).error # "" THEN Thrown(as_object(root).error)
    ELSE IF "actions" \notin DOMAIN root.members
    THEN Thrown("input mapping JSON missing 'actions' array")
    ELSE IF as_array(root.members["actions"]).error # ""
    THEN Thrown(as_array(root.members["actions"]).error)
    ELSE ParseActions(root.members["actions"].items, 1, <<>>)

\* mutant: the engine is cleared before the document is read
load_json_clearing_first(store, root) ==
    LET spec == FromJson(root)
    IN  IF spec.error # ""
        THEN [actions |-> Clear(store), error |-> spec.error, spec |-> [actions |-> <<>>]]
        ELSE [actions |-> load(store, spec.value), error |-> "", spec |-> spec.value]

\* InputMapping::load unless FromJson threw, spec being the outcome of FromJson
LoadParsed(store, spec) ==
    IF spec.error # ""
    THEN [actions |-> store, error |-> spec.error, spec |-> [actions |-> <<>>]]
    ELSE [actions |-> load(store, spec.value), error |-> "", spec |-> spec.value]

\* DemoLevel::load for a document: FromJson, then InputMapping::load unless it threw
load_json(store, root) == LoadParsed(store, FromJson(root))

----------------------------------------------------------------------------
(* The calls a client makes                                                *)

Init ==
    /\ actions = EmptyMap
    /\ op = "construct"
    /\ arg_action = ""
    /\ arg_bindings = <<>>
    /\ arg_spec = [actions |-> <<>>]
    /\ arg_json = JsonNull
    /\ raw = DefaultRaw
    /\ ret_states = EmptyMap
    /\ ret_state = DefaultActionState
    /\ ret_lookup = NoLookup
    /\ last_edge = EmptyMap
    /\ error = ""

Load(specs) ==
    \E spec \in specs :
        /\ actions' = load(actions, spec)
        /\ op' = "load"
        /\ arg_spec' = spec
        /\ arg_json' = JsonNull
        /\ arg_action' = ""
        /\ arg_bindings' = <<>>
        /\ raw' = DefaultRaw
        /\ ret_states' = EmptyMap
        /\ ret_state' = DefaultActionState
        /\ ret_lookup' = NoLookup
        /\ last_edge' = EmptyMap
        /\ error' = ""

\* what a call of rebind leaves, r being what rebind gave
Rebound(action, bindings, r) ==
    /\ actions' = r.actions
    /\ error' = r.error
    /\ op' = "rebind"
    /\ arg_action' = action
    /\ arg_bindings' = bindings
    /\ arg_spec' = [actions |-> <<>>]
    /\ arg_json' = JsonNull
    /\ raw' = DefaultRaw
    /\ ret_states' = EmptyMap
    /\ ret_state' = DefaultActionState
    /\ ret_lookup' = NoLookup
    /\ last_edge' = EmptyMap

Rebind(ids, lists) ==
    \E action \in ids, bindings \in lists :
        Rebound(action, bindings, rebind(actions, action, bindings))

\* the history of the synthetic edges (triggered and released as compute_state
\* returns them): for each action of store that has analog-interpretation axis
\* bindings only and a threshold, the edge it emitted last, states being what
\* this call emitted and seen the history before it
EdgeSeen(seen, store, states) ==
    [id \in {i \in DOMAIN store :
                /\ store[i].spec.analog_threshold > 0
                /\ Len(store[i].bindings) > 0
                /\ \A b \in 1..Len(store[i].bindings) :
                        /\ store[i].bindings[b].descriptor.kind = "Axis"
                        /\ store[i].bindings[b].descriptor.interpretation = "Analog"
                /\ \/ i \in DOMAIN seen
                   \/ i \in DOMAIN states /\ (states[i].triggered \/ states[i].released)}
        |-> IF id \in DOMAIN states /\ states[id].triggered THEN "triggered"
            ELSE IF id \in DOMAIN states /\ states[id].released THEN "released"
            ELSE seen[id]]

\* what a call of evaluate leaves, r being what evaluate gave
Evaluated(state, r) ==
    /\ actions' = r.actions
    /\ ret_states' = r.states
    /\ op' = "evaluate"
    /\ raw' = state
    /\ arg_action' = ""
    /\ arg_bindings' = <<>>
    /\ arg_spec' = [actions |-> <<>>]
    /\ arg_json' = JsonNull
    /\ ret_state' = DefaultActionState
    /\ ret_lookup' = NoLookup
    /\ last_edge' = EdgeSeen(last_edge, r.actions, r.states)
    /\ error' = ""

Evaluate(states) ==
    \E state \in states, order \in Orders(DOMAIN actions) :
        Evaluated(state, evaluate(actions, order, state))

\* what the ingestion of a document leaves, r being what load_json gave
JsonLoaded(root, r) ==
    /\ actions' = r.actions
    /\ error' = r.error
    /\ op' = "FromJson"
    /\ arg_json' = root
    /\ arg_spec' = r.spec
    /\ arg_action' = ""
    /\ arg_bindings' = <<>>
    /\ raw' = DefaultRaw
    /\ ret_states' = EmptyMap
    /\ ret_state' = DefaultActionState
    /\ ret_lookup' = NoLookup
    /\ last_edge' = EmptyMap

LoadJson(documents) ==
    \E root \in documents : JsonLoaded(root, load_json(actions, root))

\* what a call of evaluate_action leaves, r being what evaluate_action gave
ActionEvaluated(action, state, r) ==
    /\ actions' = r.actions
    /\ ret_state' = r.state
    /\ ret_lookup' = NoLookup
    /\ last_edge' = EdgeSeen(last_edge, r.actions,
                             [id \in {action} \cap DOMAIN r.actions |-> r.state])
    /\ op' = "evaluate_action"
    /\ arg_action' = action
    /\ raw' = state
    /\ arg_bindings' = <<>>
    /\ arg_spec' = [actions |-> <<>>]
    /\ arg_json' = JsonNull
    /\ ret_states' = EmptyMap
    /\ error' = ""

EvaluateAction(ids, states) ==
    \E action \in ids, state \in states :
        ActionEvaluated(action, state, evaluate_action(actions, action, state))

\* what the three reads leave, found being what state_for gave
LookedUp(action, fallback, found) ==
    /\ ret_states' = found.states
    /\ ret_lookup' = [state |-> found.state,
                      has_action |-> has_action(found.states, action),
                      value |-> value_or(found.states, action, fallback),
                      fallback |-> fallback]
    /\ op' = "lookup"
    /\ arg_action' = action
    /\ arg_bindings' = <<>>
    /\ arg_spec' = [actions |-> <<>>]
    /\ arg_json' = JsonNull
    /\ ret_state' = DefaultActionState
    /\ error' = ""
    /\ UNCHANGED <<actions, raw, last_edge>>

\* a client reads the InputState it holds: state_for, then has_action, then value_or
Lookup(ids, fallbacks) ==
    \E action \in ids, fallback \in fallbacks :
        LookedUp(action, fallback, state_for(ret_states, action))

----------------------------------------------------------------------------
(* The bounded universe of tables and device snapshots                     *)

MaxBindings == 2
MaxDelta == 2

ButtonStates == {ButtonState(p, w) : p, w \in BOOLEAN}

Keys == {"KeyA", "KeyD"}

Tenth == Unit \div 10
Quarter == Unit \div 4
ThreeFifths == (3 * Unit) \div 5

\* frame times: an empty frame, half the smoothing window, more than the window
DeltaTimes == {0, Half, MaxDelta * One}

\* every state of the two keys, the other devices at rest
KeyboardStates ==
    {RawInputState(keys, RawMouseState(EmptyMap, 0), EmptyMap, dt) :
        keys \in [Keys -> ButtonStates], dt \in DeltaTimes}

BtnA == BindingDescriptor("Keyboard", "Button", "KeyA", -One, Tenth, FALSE, "Analog")
BtnD == BindingDescriptor("Keyboard", "Button", "KeyD", One, Tenth, FALSE, "Analog")
TogD == BindingDescriptor("Keyboard", "Button", "KeyD", One, Tenth, TRUE, "Analog")

BindingLists ==
    {l \in {<<>>, <<BtnD>>, <<TogD>>, <<BtnA, BtnD>>, <<TogD, BtnA>>, <<BtnD, TogD>>,
             <<BtnD, TogD, BtnA>>} :
        Len(l) <= MaxBindings}

Windows == {0, One}
Thresholds == {0, ThreeFifths}

ActionIds == {"move", "dash"}

\* the binding lists that are also loaded with a smoothing window
SmoothedLists == {<<BtnD>>, <<TogD, BtnA>>}

MoveSpecs ==
    {ActionBindingSpec("move", b, 0, t) : b \in BindingLists, t \in Thresholds}
        \cup {ActionBindingSpec("move", b, w, t) :
                b \in SmoothedLists, w \in Windows \ {0}, t \in Thresholds \ {0}}

\* dash is bound to KeyA with a scale beyond the value range
DashA == BindingDescriptor("Keyboard", "Button", "KeyA", -2 * One, Tenth, FALSE, "Analog")

DashSpec == ActionBindingSpec("dash", <<DashA>>, 0, 0)

Table(entries) == [actions |-> entries]

\* the specs of move that are also loaded together with dash
PairedSpecs == {ActionBindingSpec("move", b, 0, 0) : b \in {<<BtnD>>, <<TogD>>}}

Tables ==
    {Table(<<>>), Table(<<DashSpec>>)}
        \cup {Table(<<s>>) : s \in MoveSpecs}
        \cup {Table(<<s, DashSpec>>) : s \in PairedSpecs}
        \cup {Table(<<s, t>>) : s, t \in PairedSpecs}

RebindLists == {<<>>, <<TogD>>}

\* the snapshots evaluate_action is called with: KeyA at rest, half a window elapsed
ProbeStates ==
    {st \in KeyboardStates : st.keyboard.keys["KeyA"] = kEmptyButton /\ st.delta_time = Half}

Next ==
    \/ Load(Tables)
    \/ Rebind(ActionIds, RebindLists)
    \/ Evaluate(KeyboardStates)
    \/ EvaluateAction(ActionIds, ProbeStates)

Spec == Init /\ [][Next]_vars

----------------------------------------------------------------------------
(* A gamepad axis: the universe of the axis bindings                       *)

ThreeTenths == RoundDiv(3 * Unit, 10)

\* readings of left_x: at both ends, beyond the deadzone 0.25, on it, and at rest
AxisReadings == {-One, -ThreeTenths, 0, Quarter, ThreeTenths, One}

AxisStates ==
    {RawInputState(EmptyMap, RawMouseState(EmptyMap, 0), [a \in {"left_x"} |-> v], dt) :
        v \in AxisReadings, dt \in DeltaTimes}

AxisAnalog == BindingDescriptor("Gamepad", "Axis", "left_x", One, Quarter, FALSE, "Analog")
AxisDigital == BindingDescriptor("Gamepad", "Axis", "left_x", One, Quarter, FALSE, "Digital")
AxisDigitalHalf == BindingDescriptor("Gamepad", "Axis", "left_x", Half, Quarter, FALSE, "Digital")
AxisDigitalNeg == BindingDescriptor("Gamepad", "Axis", "left_x", -One, Quarter, FALSE, "Digital")

AxisLists ==
    {<<AxisAnalog>>, <<AxisDigital>>, <<AxisDigitalHalf>>, <<AxisDigitalNeg>>,
     <<AxisDigital, AxisAnalog>>}

AxisSpecs ==
    {ActionBindingSpec("move", b, w, t) : b \in AxisLists, w \in Windows, t \in Thresholds}

AxisTables == {Table(<<s>>) : s \in AxisSpecs}

AxisProbeStates == {st \in AxisStates : st.delta_time = Half}

NextAxes ==
    \/ Load(AxisTables)
    \/ Evaluate(AxisStates)
    \/ EvaluateAction(ActionIds, AxisProbeStates)

SpecAxes == Init /\ [][NextAxes]_vars

----------------------------------------------------------------------------
(* Controls the snapshot does not hold: the universe of the absent names   *)

\* KeyD in every state, left_x at rest or at its end; no mouse or gamepad button
AbsentStates ==
    {RawInputState([k \in {"KeyD"} |-> b], RawMouseState(EmptyMap, 0),
                   [a \in {"left_x"} |-> v], Half) :
        b \in ButtonStates, v \in {0, One}}

\* bindings to names no snapshot of AbsentStates holds
KeyX == BindingDescriptor("Keyboard", "Button", "KeyX", One, Tenth, FALSE, "Analog")
RightDigital == BindingDescriptor("Gamepad", "Axis", "right_x", One, Quarter, FALSE, "Digital")
TogX == BindingDescriptor("Keyboard", "Button", "KeyX", Half, Tenth, TRUE, "Analog")

\* a button of each device, right_x read analog, digital and with a negative
\* deadzone, a mouse axis, a key read as an axis, and a toggle
AbsentBindings ==
    {KeyX,
     BindingDescriptor("Mouse", "Button", "left", One, Tenth, FALSE, "Analog"),
     BindingDescriptor("Gamepad", "Button", "south", One, Tenth, FALSE, "Analog"),
     BindingDescriptor("Gamepad", "Axis", "right_x", One, Quarter, FALSE, "Analog"),
     RightDigital,
     BindingDescriptor("Gamepad", "Axis", "right_x", One, -Quarter, FALSE, "Analog"),
     BindingDescriptor("Mouse", "Pointer", "tilt", One, Tenth, FALSE, "Analog"),
     BindingDescriptor("Keyboard", "Axis", "KeyX", One, Tenth, FALSE, "Analog"),
     TogX}

\* an absent name beside a binding the snapshots drive, in both orders
SpecAbsent ==
    Init /\ [][\/ Load({Table(<<ActionBindingSpec("move", l, 0, t)>>) :
                            l \in {<<b, x>> : b \in {BtnD, TogD, AxisAnalog},
                                              x \in AbsentBindings}
                                    \cup {<<x, b>> : b \in {BtnD, TogD, AxisAnalog},
                                                     x \in AbsentBindings},
                            t \in Thresholds})
               \/ Rebind({"move"}, {<<TogX>>})
               \/ Evaluate(AbsentStates)]_vars

----------------------------------------------------------------------------
(* Reading an InputState: the universe of the lookups                      *)

\* move alone, and move beside dash; a client asks for the loaded ids and for
\* one no table holds, with the fallbacks 0 and -1
SpecLookup ==
    Init /\ [][\/ Load({Table(<<ActionBindingSpec("move", <<BtnD>>, 0, 0)>>),
                         Table(<<ActionBindingSpec("move", <<BtnD>>, 0, 0), DashSpec>>)})
               \/ Evaluate(KeyboardStates)
               \/ Lookup(ActionIds \cup {"jump"}, {0, -One})]_vars

----------------------------------------------------------------------------
(* Several toggles on one action: the universe of the toggle bindings      *)

\* a toggle on KeyA of scale 0.5, beside TogD of scale 1
TogA == BindingDescriptor("Keyboard", "Button", "KeyA", Half, Tenth, TRUE, "Analog")

\* every state of the two keys, no time elapsed
SpecToggles ==
    Init /\ [][\/ Load({Table(<<ActionBindingSpec("move", l, 0, 0)>>) :
                            l \in {<<TogA>>, <<TogA, TogD>>, <<TogD, TogA>>, <<TogD, TogD>>,
                                   <<TogA, BtnD>>, <<BtnD>>}})
               \/ Rebind({"move"}, {<<>>, <<BtnD>>, <<TogA, TogD>>, <<TogD, TogA>>})
               \/ Evaluate({RawInputState(keys, RawMouseState(EmptyMap, 0), EmptyMap, 0) :
                               keys \in [Keys -> ButtonStates]})]_vars

----------------------------------------------------------------------------
(* Keys and an axis on one action: the universe of the emitted flags       *)

\* KeyA at rest or held, KeyD in every state, left_x at rest, on its deadzone and at both
\* ends; half a smoothing window elapsed
SpecMixed ==
    Init /\ [][\/ Load({Table(<<ActionBindingSpec("move", l, w, t)>>) :
                            l \in {<<BtnA, BtnD>>, <<TogD>>, <<AxisAnalog>>, <<AxisDigital>>,
                                   <<BtnA, AxisAnalog>>},
                            w \in Windows, t \in Thresholds})
               \/ Evaluate({RawInputState([k \in Keys |-> IF k = "KeyA" THEN a ELSE d],
                                          RawMouseState(EmptyMap, 0),
                                          [x \in {"left_x"} |-> v], Half) :
                               a \in {kEmptyButton, ButtonState(TRUE, TRUE)},
                               d \in ButtonStates, v \in {-One, 0, Quarter, One}})]_vars

----------------------------------------------------------------------------
(* Three bindings on one action: the universe of the binding orders        *)

\* move bound to KeyD with the scales 1 and 0.1 and to KeyA with the scale -1,
\* or to both toggles and KeyD, in every order and with and without a
\* threshold; move beside dash in both orders; every state of the two keys
SpecOrder ==
    Init /\ [][\/ Load({Table(<<ActionBindingSpec("move", l, 0, t)>>) :
                            l \in Orders({BtnD, BtnA,
                                          BindingDescriptor("Keyboard", "Button", "KeyD",
                                                            Tenth, Tenth, FALSE, "Analog")})
                                    \cup Orders({TogA, BtnD, TogD}),
                            t \in Thresholds}
                         \cup {Table(<<ActionBindingSpec("move", <<BtnD>>, 0, 0), DashSpec>>),
                               Table(<<DashSpec, ActionBindingSpec("move", <<BtnD>>, 0, 0)>>)})
               \/ Evaluate({RawInputState(keys, RawMouseState(EmptyMap, 0), EmptyMap, Half) :
                               keys \in [Keys -> ButtonStates]})]_vars

----------------------------------------------------------------------------
(* Digital axes of negative scale: the universe of the inverted bindings   *)

\* move bound to one digital axis: left_x with the scale -1, -0.5 or 1, or the
\* key KeyD with the scale -1, smoothed or not; every state of KeyD with the
\* stick at rest, pushed a little or fully, to either side
SpecDigital ==
    Init /\ [][\/ Load({Table(<<ActionBindingSpec("move", <<d>>, w, 0)>>) :
                            d \in {AxisDigitalNeg, AxisDigital,
                                   BindingDescriptor("Gamepad", "Axis", "left_x",
                                                     -Half, Tenth, FALSE, "Digital"),
                                   BindingDescriptor("Keyboard", "Axis", "KeyD",
                                                     -One, Quarter, FALSE, "Digital")},
                            w \in Windows})
               \/ Evaluate({RawInputState([k \in Keys |-> IF k = "KeyD" THEN b ELSE kEmptyButton],
                                          RawMouseState(EmptyMap, 0),
                                          [x \in {"left_x"} |-> v], t) :
                               b \in ButtonStates,
                               v \in {-One, -ThreeTenths, 0, ThreeTenths, One},
                               t \in {0, Half}})]_vars

----------------------------------------------------------------------------
(* Binding table documents: the universe of the ingestion                  *)

KeyDBinding == JsonObject([control |-> JsonString("KeyD")])

ToggleBinding == JsonObject([control |-> JsonString("KeyD"), toggle |-> JsonBool(TRUE)])

FullBinding ==
    JsonObject([device |-> JsonString("keyboard"), kind |-> JsonString("button"),
                control |-> JsonString("KeyA"), scale |-> JsonNumber(-One),
                deadzone |-> JsonNumber(Quarter), toggle |-> JsonBool(FALSE),
                interpretation |-> JsonString("analog")])

NoControlBinding == JsonObject([scale |-> JsonNumber(One)])

\* bindings with a member of the wrong shape
MisshapenBindings ==
    {JsonObject([control |-> JsonString("KeyD"), scale |-> JsonString("fast")]),
     JsonObject([control |-> JsonString("KeyD"), scale |-> JsonNull]),
     JsonObject([control |-> JsonString("KeyD"), deadzone |-> JsonArray(<<>>)]),
     JsonObject([control |-> JsonString("KeyD"), toggle |-> JsonString("yes")]),
     JsonObject([control |-> JsonString("KeyD"), toggle |-> JsonNumber(One)]),
     JsonObject([control |-> JsonString("KeyD"), device |-> JsonNumber(One)]),
     JsonObject([control |-> JsonNumber(One)])}

\* bindings that name their device, kind and interpretation, by tokens the parser knows
\* and by texts it does not know
TokenBindings ==
    {JsonObject([control |-> JsonString("KeyD"), device |-> JsonString(d)]) :
        d \in {"keyboard", "mouse", "gamepad", "controller", "joystick", "Gamepad"}}
    \cup {JsonObject([control |-> JsonString("KeyD"), kind |-> JsonString(k)]) :
        k \in {"button", "axis", "pointer", "slider"}}
    \cup {JsonObject([control |-> JsonString("left_x"), device |-> JsonString("controller"),
                      kind |-> JsonString("axis"), interpretation |-> JsonString(i)]) :
        i \in {"analog", "digital", "binary", "fuzzy"}}

Entry(id, bindings) == JsonObject([id |-> JsonString(id), bindings |-> JsonArray(bindings)])

TunedEntry ==
    JsonObject([id |-> JsonString("move"), bindings |-> JsonArray(<<KeyDBinding>>),
                smoothing |-> JsonNumber(One), analog_threshold |-> JsonNumber(ThreeFifths)])

AliasEntry == JsonObject([action |-> JsonString("move"), bindings |-> JsonArray(<<ToggleBinding>>)])

NoIdEntry == JsonObject([bindings |-> JsonArray(<<KeyDBinding>>)])

NoBindingsEntry == JsonObject([id |-> JsonString("move")])

\* entries with a member of the wrong shape
MisshapenEntries ==
    {JsonObject([id |-> JsonString("move"), bindings |-> JsonArray(<<KeyDBinding>>),
                 smoothing |-> JsonString("0.5")]),
     JsonObject([id |-> JsonString("move"), bindings |-> JsonArray(<<KeyDBinding>>),
                 analog_threshold |-> JsonNull]),
     JsonObject([id |-> JsonString("move"), bindings |-> JsonObject([control |-> JsonString("KeyD")])]),
     JsonObject([id |-> JsonNumber(One), bindings |-> JsonArray(<<KeyDBinding>>)])}

GoodEntries ==
    {Entry("move", <<KeyDBinding>>), Entry("move", <<ToggleBinding>>),
     Entry("dash", <<FullBinding>>), TunedEntry, AliasEntry}
        \cup {Entry("move", <<b>>) : b \in TokenBindings}

BadEntries ==
    {NoIdEntry, NoBindingsEntry, Entry("move", <<NoControlBinding>>),
     Entry("move", <<KeyDBinding, NoControlBinding>>)}
        \cup {Entry("move", <<b>>) : b \in MisshapenBindings}
        \cup MisshapenEntries

Document(entries) == JsonObject([actions |-> JsonArray(entries)])

Documents ==
    {JsonObject([version |-> JsonNumber(One)]),
     JsonObject([actions |-> JsonString("move")]),
     JsonArray(<<>>),
     Document(<<>>)}
        \cup {Document(<<e>>) : e \in GoodEntries \cup BadEntries}
        \cup {Document(<<Entry("move", <<ToggleBinding>>), e>>) :
                e \in BadEntries \cup {Entry("dash", <<FullBinding>>)}}

NextIngest ==
    \/ LoadJson(Documents)
    \/ Evaluate(ProbeStates)

SpecIngest == Init /\ [][NextIngest]_vars

----------------------------------------------------------------------------
(* Reading the last call                                                   *)

\* the last call evaluated the loaded action id
EvaluatedNow(id) ==
    \/ op = "evaluate" /\ id \in DOMAIN ret_states
    \/ op = "evaluate_action" /\ arg_action = id /\ id \in DOMAIN actions

\* the ActionState the last call emitted for id
Emitted(id) == IF op = "evaluate" THEN ret_states[id] ELSE ret_state

InRange(x) == -One <= x /\ x <= One

KeyOf(state, control) == get(state.keyboard.keys, control)

Bound(list) == [i \in 1..Len(list) |-> RuntimeBinding(list[i])]

\* snapshot s1 is the frame after s0: each key's was_pressed is its pressed of s0
FrameFollows(s0, s1) ==
    \A k \in Keys : KeyOf(s1, k).was_pressed = KeyOf(s0, k).pressed

----------------------------------------------------------------------------
(* C1: every emitted ActionState.value and every stored previous_value     *)
(* lies in [-1, 1], after any sequence of load, rebind, evaluate and       *)
(* evaluate_action calls.                                                  *)

ValueInRange ==
    /\ \A id \in DOMAIN ret_states : InRange(ret_states[id].value)
    /\ InRange(ret_state.value)
    /\ \A id \in DOMAIN actions : InRange(actions[id].previous_value)

\* KeyD held with the toggle on under <<BtnD, TogD>>: 1 + 1 accumulated, 1 emitted
ValueInRangeWitness ==
    /\ op = "evaluate"
    /\ "move" \in DOMAIN ret_states
    /\ actions["move"].bindings = Bound(<<BtnD, TogD>>)
    /\ KeyOf(raw, "KeyD").pressed
    /\ actions["move"].toggle_state
    /\ ret_states["move"].value = One

----------------------------------------------------------------------------
(* C2: no evaluation emits an ActionState with triggered and released      *)
(* both true.                                                              *)

NeverTriggeredAndReleased ==
    /\ \A id \in DOMAIN ret_states : ~(ret_states[id].triggered /\ ret_states[id].released)
    /\ ~(ret_state.triggered /\ ret_state.released)

----------------------------------------------------------------------------
(* C3: a non-toggle button just-pressed in frame n and held in frame n+1,  *)
(* no other control changing, gives triggered in frame n and not in frame  *)
(* n+1, whatever the smoothing window, frame time and analog threshold.    *)

\* action id has a non-toggle button binding on the keyboard control
HasPlainButton(store, id, control) ==
    \E i \in 1..Len(store[id].bindings) :
        LET d == store[id].bindings[i].descriptor
        IN  d.kind = "Button" /\ ~d.toggle /\ d.device = "Keyboard" /\ d.control = control

\* control is just-pressed in snapshot s0 and held in s1; no other key has an edge in s1
PressedThenHeld(s0, s1, control) ==
    /\ just_pressed(KeyOf(s0, control))
    /\ KeyOf(s1, control) = ButtonState(TRUE, TRUE)
    /\ \A k \in Keys \ {control} :
        /\ KeyOf(s1, k).pressed = KeyOf(s0, k).pressed
        /\ KeyOf(s1, k).was_pressed = KeyOf(s0, k).pressed

HeldButtonTriggersOnce ==
    [][\A id \in ActionIds, control \in Keys :
        (/\ op = "evaluate" /\ op' = "evaluate"
         /\ id \in DOMAIN actions
         /\ HasPlainButton(actions, id, control)
         /\ PressedThenHeld(raw, raw', control))
        => (ret_states[id].triggered /\ ~ret_states'[id].triggered)]_vars

----------------------------------------------------------------------------
(* C4: an action whose only binding is a toggle button of scale 1.0,       *)
(* without smoothing: a just-pressed edge of the control flips             *)
(* toggle_state (off to on at the first edge, on to off at the second), a  *)
(* frame without a press edge keeps it, and the emitted value is 1.0       *)
(* while the toggle is on and 0.0 while it is off.                         *)

OnlyToggle(store, id) ==
    /\ id \in DOMAIN store
    /\ store[id].bindings = Bound(<<TogD>>)

ToggleFlipsOnPressEdge ==
    [][\A id \in ActionIds :
        (/\ OnlyToggle(actions, id)
         /\ actions[id].spec.smoothing_window = 0
         /\ EvaluatedNow(id)')
        => LET edge == just_pressed(KeyOf(raw', "KeyD"))
           IN  /\ actions'[id].toggle_state = (actions[id].toggle_state # edge)
               /\ Emitted(id)'.value = IF actions'[id].toggle_state THEN One ELSE 0]_vars

\* the frame of a second press edge: the toggle went off with the key down
ToggleFlipsWitness ==
    /\ op = "evaluate"
    /\ OnlyToggle(actions, "move")
    /\ actions["move"].spec.smoothing_window = 0
    /\ just_pressed(KeyOf(raw, "KeyD"))
    /\ ~actions["move"].toggle_state
    /\ ret_states["move"].value = 0

----------------------------------------------------------------------------
(* C5: for an action whose only binding is a toggle button, triggered is   *)
(* emitted only on the frame of the off-to-on flip and released only on    *)
(* the frame of the on-to-off flip, over evaluations of consecutive frames  *)
(* of the device.                                                          *)

ToggleEdgesOnlyOnFlips ==
    [][\A id \in ActionIds :
        (/\ OnlyToggle(actions, id)
         /\ EvaluatedNow(id) /\ EvaluatedNow(id)'
         /\ FrameFollows(raw, raw'))
        => /\ Emitted(id)'.triggered
                => (~actions[id].toggle_state /\ actions'[id].toggle_state)
           /\ Emitted(id)'.released
                => (actions[id].toggle_state /\ ~actions'[id].toggle_state)]_vars

----------------------------------------------------------------------------
(* C6: triggered is emitted only when the action is active and was not     *)
(* active in its preceding evaluation, released only when it is not active *)
(* and was active in its preceding evaluation, over evaluations of         *)
(* consecutive frames of the device.                                       *)

EdgesFollowActive ==
    [][\A id \in ActionIds :
        (/\ EvaluatedNow(id) /\ EvaluatedNow(id)'
         /\ FrameFollows(raw, raw'))
        => /\ Emitted(id)'.triggered
                => (Emitted(id)'.active /\ ~actions[id].previous_active)
           /\ Emitted(id)'.released
                => (~Emitted(id)'.active /\ actions[id].previous_active)]_vars

----------------------------------------------------------------------------
(* C7: rebind with an id that is not loaded throws and leaves the whole    *)
(* store as it was.                                                        *)

RebindUnknownFails ==
    [][(op' = "rebind" /\ arg_action' \notin DOMAIN actions)
        => (error' = "unknown action" /\ actions' = actions)]_vars

\* a failed rebind on a store that holds another action with memory
RebindUnknownWitness ==
    /\ op = "rebind"
    /\ error = "unknown action"
    /\ arg_action \notin DOMAIN actions
    /\ \E id \in DOMAIN actions : actions[id].previous_value # 0

----------------------------------------------------------------------------
(* C8: rebind with a loaded id replaces that action's binding list by the  *)
(* new list, in order, and changes nothing else of the store.              *)

----------------------------------------------------------------------------
(* C9: load replaces the whole action set: the store holds exactly the     *)
(* ids of the table, each with its spec of the table and default memory,   *)
(* and the first evaluation after it returns what a freshly constructed    *)
(* engine loaded with that table returns.                                  *)

TableIds(spec) == {spec.actions[i].id : i \in 1..Len(spec.actions)}

DefaultMemory(a) ==
    /\ a.previous_value = 0
    /\ a.previous_active = FALSE
    /\ a.toggle_state = FALSE
    /\ a.toggle_scale = One

LoadReplacesAll ==
    [][/\ op' = "load" =>
            /\ DOMAIN actions' = TableIds(arg_spec')
            /\ \A id \in DOMAIN actions' :
                /\ DefaultMemory(actions'[id])
                /\ \E i \in 1..Len(arg_spec'.actions) :
                    /\ arg_spec'.actions[i].id = id
                    /\ actions'[id].spec = arg_spec'.actions[i]
                    /\ actions'[id].bindings = Bound(arg_spec'.actions[i].bindings)
       /\ (op = "load" /\ op' = "evaluate") =>
            \E order \in Orders(TableIds(arg_spec)) :
                ret_states' = evaluate(load(EmptyMap, arg_spec), order, raw').states]_vars

\* a load of a one-action table into a store that is left without dash
LoadReplacesWitness ==
    /\ op = "load"
    /\ Len(arg_spec.actions) = 1
    /\ DOMAIN actions = {"move"}
    /\ actions["move"].spec.bindings = <<TogD>>

----------------------------------------------------------------------------
(* C10: evaluate_action with an id that is not loaded returns the neutral  *)
(* ActionState, throws nothing and leaves the store as it was.             *)

EvaluateUnknownIsNeutral ==
    [][(op' = "evaluate_action" /\ arg_action' \notin DOMAIN actions)
        => /\ ret_state' = DefaultActionState
           /\ error' = ""
           /\ actions' = actions]_vars

\* the neutral answer for dash while move is loaded, its toggle on
EvaluateUnknownWitness ==
    /\ op = "evaluate_action"
    /\ arg_action = "dash"
    /\ DOMAIN actions = {"move"}
    /\ actions["move"].toggle_state
    /\ ret_state = DefaultActionState

----------------------------------------------------------------------------
(* C11: the pressed non-toggle button bindings of an action sum: for an    *)
(* action bound to such buttons only, the value before smoothing is        *)
(* clamp(sum of the scales of the pressed bindings, -1, 1), and it is the  *)
(* emitted value when the action is not smoothed; KeyA (scale -1) and KeyD *)
(* (scale 1) held together give 0.                                         *)

AllPlainButtons(store, id) ==
    \A i \in 1..Len(store[id].bindings) :
        LET d == store[id].bindings[i].descriptor
        IN  d.kind = "Button" /\ ~d.toggle /\ d.device = "Keyboard"

\* the exact sum of the scales of the bindings, from binding i on, whose key is down
RECURSIVE SumOfPressed(_, _, _)
SumOfPressed(bindings, i, state) ==
    IF i > Len(bindings) THEN 0
    ELSE (IF KeyOf(state, bindings[i].descriptor.control).pressed
          THEN bindings[i].descriptor.scale ELSE 0)
         + SumOfPressed(bindings, i + 1, state)

PressedButtonsSum ==
    [][\A id \in ActionIds :
        (/\ id \in DOMAIN actions
         /\ EvaluatedNow(id)'
         /\ AllPlainButtons(actions, id))
        => LET sum == SumOfPressed(actions[id].bindings, 1, raw')
           IN  /\ clamped_value(actions[id], raw') = Clamp(sum, -One, One)
               /\ actions[id].spec.smoothing_window = 0
                    => Emitted(id)'.value = Clamp(sum, -One, One)]_vars

\* KeyA and KeyD held together under <<BtnA, BtnD>>: the action is active with value 0
PressedButtonsSumWitness ==
    /\ op = "evaluate"
    /\ "move" \in DOMAIN ret_states
    /\ actions["move"].bindings = Bound(<<BtnA, BtnD>>)
    /\ actions["move"].spec.smoothing_window = 0
    /\ KeyOf(raw, "KeyA").pressed /\ KeyOf(raw, "KeyD").pressed
    /\ ret_states["move"].value = 0
    /\ ret_states["move"].active

----------------------------------------------------------------------------
(* C14: evaluate gives every loaded action the ActionState and the memory  *)
(* that compute_state gives that action alone, from its own memory before  *)
(* the call: whatever the order of the visit and whatever the other        *)
(* actions are bound to, remember or return.                               *)

ActionsAreIndependent ==
    [][op' = "evaluate" =>
        /\ DOMAIN ret_states' = DOMAIN actions
        /\ DOMAIN actions' = DOMAIN actions
        /\ \A id \in DOMAIN actions :
            compute_state(actions[id], raw')
                = [state |-> ret_states'[id], action |-> actions'[id]]]_vars

\* one evaluate of two actions, both with an input: the toggle of move on, dash at -1
ActionsAreIndependentWitness ==
    /\ op = "evaluate"
    /\ DOMAIN ret_states = {"move", "dash"}
    /\ actions["move"].toggle_state
    /\ ~actions["dash"].toggle_state
    /\ ret_states["move"].value = One
    /\ ret_states["dash"].value = -One

----------------------------------------------------------------------------
(* C15: evaluate_action on a loaded id returns the ActionState that        *)
(* evaluate, from the same memory and snapshot, stores under that id, and  *)
(* leaves that action's memory as evaluate leaves it; the other actions    *)
(* keep their memory.                                                      *)

EvaluateOneMatchesEvaluate ==
    [][(op' = "evaluate_action" /\ arg_action' \in DOMAIN actions) =>
        /\ \A order \in Orders(DOMAIN actions) :
            LET all == evaluate(actions, order, raw')
            IN  /\ ret_state' = all.states[arg_action']
                /\ actions'[arg_action'] = all.actions[arg_action']
        /\ DOMAIN actions' = DOMAIN actions
        /\ \A id \in DOMAIN actions \ {arg_action'} : actions'[id] = actions[id]]_vars

\* evaluate_action of move beside dash, on the press edge that turns the toggle on
EvaluateOneWitness ==
    /\ op = "evaluate_action"
    /\ arg_action = "move"
    /\ DOMAIN actions = {"move", "dash"}
    /\ just_pressed(KeyOf(raw, "KeyD"))
    /\ actions["move"].toggle_state
    /\ ret_state.value = One
    /\ ret_state.triggered

----------------------------------------------------------------------------
(* C16: an evaluation is determined by the binding table (the current      *)
(* bindings and the tuning of each action), the memory of each action and  *)
(* the snapshot: an engine that agrees with this one on these, and differs *)
(* in the order it visits its actions and in the rest of its entries,      *)
(* emits the same states and ends with the same memory.                    *)

\* an engine with the table and the memory of store that was loaded with empty
\* binding lists and rebound, and never wrote smoothed_value
Twin(store) ==
    [id \in DOMAIN store |->
        [store[id] EXCEPT !.spec.bindings = <<>>, !.smoothed_value = One]]

EvaluationIsDeterministic ==
    [][op' = "evaluate" =>
        \A order \in Orders(DOMAIN actions) :
            evaluate(Twin(actions), order, raw')
                = [actions |-> Twin(actions'), states |-> ret_states']]_vars

\* an evaluation of two actions after move was rebound from BtnD to TogD
EvaluationIsDeterministicWitness ==
    /\ op = "evaluate"
    /\ DOMAIN ret_states = {"move", "dash"}
    /\ actions["move"].spec.bindings = <<BtnD>>
    /\ actions["move"].bindings = Bound(<<TogD>>)
    /\ ret_states["move"].triggered
    /\ ret_states["dash"].active

----------------------------------------------------------------------------
(* C17: an evaluation of an action commits its memory once, from the       *)
(* result of the whole fold: previous_value and previous_active are the    *)
(* value and active of the ActionState emitted by that call, toggle_state  *)
(* is the toggle after the press edges of all its toggle bindings, its     *)
(* table entry is untouched, and an action the call does not evaluate      *)
(* keeps its memory.                                                       *)

HasToggle(a) == \E i \in 1..Len(a.bindings) : a.bindings[i].descriptor.toggle

\* the number of toggle bindings of the action whose key has a press edge
PressEdges(a, state) ==
    Cardinality({i \in 1..Len(a.bindings) :
        /\ a.bindings[i].descriptor.toggle
        /\ just_pressed(KeyOf(state, a.bindings[i].descriptor.control))})

MemoryCommittedOnce ==
    [][(op' \in {"evaluate", "evaluate_action"}) =>
        /\ DOMAIN actions' = DOMAIN actions
        /\ \A id \in DOMAIN actions :
            IF EvaluatedNow(id)'
            THEN /\ actions'[id].previous_value = Emitted(id)'.value
                 /\ actions'[id].previous_active = Emitted(id)'.active
                 /\ actions'[id].toggle_state =
                        IF HasToggle(actions[id])
                        THEN (actions[id].toggle_state # (PressEdges(actions[id], raw') % 2 = 1))
                        ELSE FALSE
                 /\ actions'[id].spec = actions[id].spec
                 /\ actions'[id].bindings = actions[id].bindings
            ELSE actions'[id] = actions[id]]_vars

\* a smoothed frame: the value committed is the smoothed 0.5, not the target 1
MemoryCommittedWitness ==
    /\ op = "evaluate"
    /\ "move" \in DOMAIN ret_states
    /\ actions["move"].spec.smoothing_window = One
    /\ actions["move"].bindings = Bound(<<BtnD>>)
    /\ KeyOf(raw, "KeyD").pressed
    /\ raw.delta_time = Half
    /\ ret_states["move"].value = Half
    /\ actions["move"].previous_value = Half
    /\ actions["move"].previous_active

----------------------------------------------------------------------------
(* C12: a digital axis binding whose scaled reading is beyond its deadzone *)
(* contributes its scale with the sign of the scaled reading, whatever the *)
(* magnitude of the reading (0.3 with deadzone 0.25 and scale 1 gives 1    *)
(* before smoothing), and contributes 0 when the scaled reading is within  *)
(* the deadzone.                                                           *)

OnlyDigitalAxis(store, id) ==
    /\ Len(store[id].bindings) = 1
    /\ store[id].bindings[1].descriptor.kind = "Axis"
    /\ store[id].bindings[1].descriptor.device = "Gamepad"
    /\ store[id].bindings[1].descriptor.interpretation = "Digital"

\* the contribution of a digital axis binding: its scale, with the sign of the scaled reading
DigitalContribution(d, state) ==
    LET reading == FMul(axis_value(state.gamepad.axes, d.control), d.scale)
    IN  IF Fabs(reading) > d.deadzone
        THEN (IF reading > 0 THEN d.scale ELSE -d.scale)
        ELSE 0

DigitalAxisSaturates ==
    [][\A id \in ActionIds :
        (/\ id \in DOMAIN actions
         /\ EvaluatedNow(id)'
         /\ OnlyDigitalAxis(actions, id))
        => LET contribution == DigitalContribution(actions[id].bindings[1].descriptor, raw')
           IN  /\ clamped_value(actions[id], raw') = contribution
               /\ (actions[id].spec.smoothing_window = 0 \/ raw'.delta_time = 0)
                    => Emitted(id)'.value = contribution]_vars

\* the reading 0.3 on the digital binding of scale 1 and deadzone 0.25 emits 1
DigitalAxisWitness ==
    /\ op = "evaluate"
    /\ "move" \in DOMAIN ret_states
    /\ actions["move"].bindings = Bound(<<AxisDigital>>)
    /\ actions["move"].spec.smoothing_window = 0
    /\ axis_value(raw.gamepad.axes, "left_x") = ThreeTenths
    /\ ret_states["move"].value = One

----------------------------------------------------------------------------
(* C13: with smoothing_window > 0 and delta_time > 0 the emitted value is  *)
(* previous_value + (target - previous_value) * t in float arithmetic,     *)
(* with t = clamp(delta_time / smoothing_window, 0, 1) and target the      *)
(* clamped accumulated value (window 1, target 1, previous 0, delta_time   *)
(* 0.5 gives 0.5).                                                         *)
(* As claimed: a delta_time >= smoothing_window gives exactly the target.  *)
(* As amended: it gives t = 1 and previous_value + (target -               *)
(* previous_value), which is the target when that difference is            *)
(* representable, as it is for previous_value 0.                           *)

Smoothed(id) == actions[id].spec.smoothing_window > 0 /\ raw'.delta_time > 0

\* the claim as made
SmoothingSnapsToTarget ==
    [][\A id \in ActionIds :
        (id \in DOMAIN actions /\ EvaluatedNow(id)' /\ Smoothed(id))
        => LET target == clamped_value(actions[id], raw')
               previous == actions[id].previous_value
               t == Clamp(FDiv(raw'.delta_time, actions[id].spec.smoothing_window), 0, One)
           IN  /\ Emitted(id)'.value = FAdd(previous, FMul(FSub(target, previous), t))
               /\ raw'.delta_time >= actions[id].spec.smoothing_window
                    => Emitted(id)'.value = target]_vars

\* the claim as amended
SmoothingFollowsFormula ==
    [][\A id \in ActionIds :
        (id \in DOMAIN actions /\ EvaluatedNow(id)' /\ Smoothed(id))
        => LET target == clamped_value(actions[id], raw')
               previous == actions[id].previous_value
               t == Clamp(FDiv(raw'.delta_time, actions[id].spec.smoothing_window), 0, One)
           IN  /\ Emitted(id)'.value = FAdd(previous, FMul(FSub(target, previous), t))
               /\ raw'.delta_time >= actions[id].spec.smoothing_window
                    => /\ t = One
                       /\ Emitted(id)'.value = FAdd(previous, FSub(target, previous))
                       /\ (FSub(target, previous) = target - previous
                            => Emitted(id)'.value = target)
               /\ (target = One /\ previous = 0 /\ raw'.delta_time = Half
                   /\ actions[id].spec.smoothing_window = One)
                    => Emitted(id)'.value = Half]_vars

\* window 1 and the axis at 1: half a window after the value 0 the value is 0.5
SmoothingWitness ==
    /\ op = "evaluate"
    /\ "move" \in DOMAIN ret_states
    /\ actions["move"].bindings = Bound(<<AxisAnalog>>)
    /\ actions["move"].spec.smoothing_window = One
    /\ axis_value(raw.gamepad.axes, "left_x") = One
    /\ raw.delta_time = Half
    /\ ret_states["move"].value = Half

----------------------------------------------------------------------------
(* Reading a document                                                      *)

\* the entries of the `actions` array, <<>> when the document has no such array
ActionEntries(root) ==
    IF root.type = "object" /\ "actions" \in DOMAIN root.members
       /\ root.members["actions"].type = "array"
    THEN root.members["actions"].items
    ELSE <<>>

\* the entries of the `bindings` array of an action entry
BindingEntries(entry) ==
    IF entry.type = "object" /\ "bindings" \in DOMAIN entry.members
       /\ entry.members["bindings"].type = "array"
    THEN entry.members["bindings"].items
    ELSE <<>>

Lacks(value, key) == value.type = "object" /\ key \notin DOMAIN value.members

\* the object has the member and its type is not among types
Misshapen(value, key, types) ==
    /\ value.type = "object"
    /\ key \in DOMAIN value.members
    /\ value.members[key].type \notin types

SomeAction(root, P(_)) ==
    \E i \in 1..Len(ActionEntries(root)) : P(ActionEntries(root)[i])

SomeBinding(root, P(_)) ==
    \E i \in 1..Len(ActionEntries(root)) :
        \E j \in 1..Len(BindingEntries(ActionEntries(root)[i])) :
            P(BindingEntries(ActionEntries(root)[i])[j])

----------------------------------------------------------------------------
(* C18: ingestion throws, and hands no table to the engine, for every      *)
(* document without `actions`, with an action entry without `bindings`,    *)
(* with a binding entry without `control`, or with an action entry         *)
(* without `id` (as claimed) / with neither `id` nor `action` (as          *)
(* amended).                                                               *)

LacksId(entry) == Lacks(entry, "id")
LacksIdAndAction(entry) == Lacks(entry, "id") /\ Lacks(entry, "action")
LacksBindings(entry) == Lacks(entry, "bindings")
LacksControl(binding) == Lacks(binding, "control")

IngestionFailed == error' # "" /\ arg_spec' = [actions |-> <<>>]

----------------------------------------------------------------------------
(* C19: ingestion throws for every document in which a member has the      *)
(* wrong shape: a scale, deadzone, smoothing or analog_threshold that is   *)
(* not a number, a toggle that is not a boolean, a device, control or id   *)
(* that is not a string, bindings that is not an array.                    *)

MisshapenAction(entry) ==
    \/ Misshapen(entry, "id", {"string"})
    \/ Misshapen(entry, "bindings", {"array"})
    \/ Misshapen(entry, "smoothing", {"number"})
    \/ Misshapen(entry, "analog_threshold", {"number"})

MisshapenBinding(binding) ==
    \/ Misshapen(binding, "device", {"string"})
    \/ Misshapen(binding, "control", {"string"})
    \/ Misshapen(binding, "scale", {"number"})
    \/ Misshapen(binding, "deadzone", {"number"})
    \/ Misshapen(binding, "toggle", {"bool"})

WrongShapeFails ==
    [][(/\ op' = "FromJson"
        /\ \/ Misshapen(arg_json', "actions", {"array"})
           \/ SomeAction(arg_json', MisshapenAction)
           \/ SomeBinding(arg_json', MisshapenBinding))
        => error' # ""]_vars

----------------------------------------------------------------------------
(* C20: when ingestion of a document throws, at whatever entry, no table   *)
(* reaches the engine: the loaded actions and their memory are what they   *)
(* were before the call.                                                   *)

MalformedNeverApplied ==
    [][(op' = "FromJson" /\ error' # "")
        => /\ actions' = actions
           /\ arg_spec' = [actions |-> <<>>]]_vars

\* a document whose first entry is well formed and whose second is not, rejected by an
\* engine that holds move with its toggle on
MalformedWitness ==
    /\ op = "FromJson"
    /\ error # ""
    /\ Len(ActionEntries(arg_json)) = 2
    /\ ParseAction(ActionEntries(arg_json)[1]).error = ""
    /\ "move" \in DOMAIN actions
    /\ actions["move"].toggle_state
    /\ actions["move"].previous_value = One

----------------------------------------------------------------------------
(* C21: a document that is well shaped (the members ingestion requires are *)
(* there, and every id, control, device, kind and interpretation is a      *)
(* string) is ingested without a throw whatever the texts of device, kind  *)
(* and interpretation are; in every ingested descriptor a text that is no  *)
(* known token gives Keyboard, Button, Analog, `controller` gives Gamepad, *)
(* `binary` gives Digital, and an absent device, kind, scale, deadzone,    *)
(* toggle, interpretation gives Keyboard, Button, 1.0, 0.1, false, Analog. *)

\* the tokens of the schema and the variants they name
DeviceTokens ==
    [keyboard |-> "Keyboard", mouse |-> "Mouse", gamepad |-> "Gamepad", controller |-> "Gamepad"]
KindTokens == [button |-> "Button", axis |-> "Axis", pointer |-> "Pointer"]
InterpretationTokens == [analog |-> "Analog", digital |-> "Digital", binary |-> "Digital"]

\* the variant the member key of the binding names: the default when the member is absent
\* or its text is no token
Variant(binding, key, tokens, default) ==
    IF key \in DOMAIN binding.members /\ binding.members[key].type = "string"
       /\ binding.members[key].string \in DOMAIN tokens
    THEN tokens[binding.members[key].string]
    ELSE default

IsString(value, key) == key \in DOMAIN value.members /\ value.members[key].type = "string"

StringIfPresent(value, key) == key \in DOMAIN value.members => value.members[key].type = "string"

WellShapedBinding(binding) ==
    /\ binding.type = "object"
    /\ IsString(binding, "control")
    /\ StringIfPresent(binding, "device")
    /\ StringIfPresent(binding, "kind")
    /\ StringIfPresent(binding, "interpretation")

WellShapedEntry(entry) ==
    /\ entry.type = "object"
    /\ IsString(entry, "id") \/ (Lacks(entry, "id") /\ IsString(entry, "action"))
    /\ "bindings" \in DOMAIN entry.members
    /\ entry.members["bindings"].type = "array"
    /\ \A j \in 1..Len(BindingEntries(entry)) : WellShapedBinding(BindingEntries(entry)[j])

WellShaped(root) ==
    /\ root.type = "object"
    /\ "actions" \in DOMAIN root.members
    /\ root.members["actions"].type = "array"
    /\ \A i \in 1..Len(ActionEntries(root)) : WellShapedEntry(ActionEntries(root)[i])

\* the descriptor ingested for the binding has the variants and the defaults of the schema
FollowsSchema(descriptor, binding) ==
    /\ descriptor.device = Variant(binding, "device", DeviceTokens, "Keyboard")
    /\ descriptor.kind = Variant(binding, "kind", KindTokens, "Button")
    /\ descriptor.interpretation = Variant(binding, "interpretation", InterpretationTokens, "Analog")
    /\ Lacks(binding, "scale") => descriptor.scale = One
    /\ Lacks(binding, "deadzone") => descriptor.deadzone = Tenth
    /\ Lacks(binding, "toggle") => descriptor.toggle = FALSE

TokensAndDefaults ==
    op = "FromJson" =>
        /\ WellShaped(arg_json) => error = ""
        /\ error = "" =>
            \A i \in 1..Len(ActionEntries(arg_json)) :
                \A j \in 1..Len(BindingEntries(ActionEntries(arg_json)[i])) :
                    FollowsSchema(arg_spec.actions[i].bindings[j],
                                  BindingEntries(ActionEntries(arg_json)[i])[j])

\* a gamepad axis named by `controller` and `binary`, no scale, deadzone or toggle given
TokensAndDefaultsWitness ==
    /\ op = "FromJson"
    /\ error = ""
    /\ arg_json = Document(<<Entry("move",
            <<JsonObject([control |-> JsonString("left_x"), device |-> JsonString("controller"),
                          kind |-> JsonString("axis"),
                          interpretation |-> JsonString("binary")])>>)>>)
    /\ arg_spec.actions[1].bindings[1] =
            BindingDescriptor("Gamepad", "Axis", "left_x", One, Tenth, FALSE, "Digital")

----------------------------------------------------------------------------
(* C22: a binding whose control name the snapshot does not hold never      *)
(* makes an evaluation fail, and the evaluation emits what it emits        *)
(* without that binding (as claimed: for every such binding; as amended:   *)
(* for a non-toggle button and for an analog axis or pointer of deadzone   *)
(* >= 0, which also leave the memory as it is without them; a digital axis *)
(* of deadzone >= 0 differs from its absence only by released, which it    *)
(* sets when |previous_value| exceeds its deadzone; a toggle button reads  *)
(* as the same control held in the snapshot at rest).                      *)

MouseAxisNames ==
    {"x", "delta_x", "y", "delta_y", "wheel", "scroll", "position_x", "position_y"}

\* the snapshot holds no control of the name the descriptor reads
Absent(descriptor, state) ==
    IF descriptor.kind = "Button"
    THEN CASE descriptor.device = "Keyboard" -> descriptor.control \notin DOMAIN state.keyboard.keys
           [] descriptor.device = "Mouse" -> descriptor.control \notin DOMAIN state.mouse.buttons
           [] descriptor.device = "Gamepad" -> descriptor.control \notin DOMAIN state.gamepad.buttons
    ELSE CASE descriptor.device = "Keyboard" -> descriptor.control \notin DOMAIN state.keyboard.keys
           [] descriptor.device = "Mouse" -> descriptor.control \notin MouseAxisNames
           [] descriptor.device = "Gamepad" -> descriptor.control \notin DOMAIN state.gamepad.axes

\* the action without its binding i
Without(a, i) ==
    [a EXCEPT !.bindings = [j \in 1..(Len(a.bindings) - 1) |->
                                IF j < i THEN a.bindings[j] ELSE a.bindings[j + 1]]]

\* the button map with the name held at rest
AtRest(map, control) ==
    [k \in DOMAIN map \cup {control} |-> IF k \in DOMAIN map THEN map[k] ELSE kEmptyButton]

\* the snapshot with the button the descriptor reads held at rest
WithButtonAtRest(state, descriptor) ==
    CASE descriptor.device = "Keyboard" ->
            [state EXCEPT !.keyboard.keys = AtRest(@, descriptor.control)]
      [] descriptor.device = "Mouse" ->
            [state EXCEPT !.mouse.buttons = AtRest(@, descriptor.control)]
      [] descriptor.device = "Gamepad" ->
            [state EXCEPT !.gamepad.buttons = AtRest(@, descriptor.control)]

\* the claim as made
AbsentControlIsInert ==
    [][\A id \in ActionIds :
        EvaluatedNow(id)' =>
            /\ error' = ""
            /\ \A i \in 1..Len(actions[id].bindings) :
                Absent(actions[id].bindings[i].descriptor, raw')
                    => compute_state(Without(actions[id], i), raw').state = Emitted(id)']_vars

\* what the binding d of an action of memory a may change of r, the outcome without it
AbsentBindingEffect(d, a, r, state, emitted, left) ==
    CASE d.kind = "Button" /\ d.toggle ->
            compute_state(a, WithButtonAtRest(state, d)) = [state |-> emitted, action |-> left]
      [] d.kind = "Button" /\ ~d.toggle ->
            /\ emitted = r.state
            /\ left = [r.action EXCEPT !.bindings = a.bindings]
      [] d.kind # "Button" /\ d.deadzone < 0 -> TRUE
      [] d.kind # "Button" /\ d.deadzone >= 0 /\ d.interpretation = "Analog" ->
            /\ emitted = r.state
            /\ left = [r.action EXCEPT !.bindings = a.bindings]
      [] d.kind # "Button" /\ d.deadzone >= 0 /\ d.interpretation = "Digital" ->
            /\ emitted = [r.state EXCEPT
                            !.released = @ \/ Fabs(a.previous_value) > d.deadzone]
            /\ left = [r.action EXCEPT !.bindings = a.bindings]

\* the claim as amended
AbsentControlReadsAtRest ==
    [][\A id \in ActionIds :
        EvaluatedNow(id)' =>
            /\ error' = ""
            /\ \A i \in 1..Len(actions[id].bindings) :
                Absent(actions[id].bindings[i].descriptor, raw')
                    => AbsentBindingEffect(actions[id].bindings[i].descriptor, actions[id],
                                           compute_state(Without(actions[id], i), raw'),
                                           raw', Emitted(id)', actions'[id])]_vars

\* left_x held at its end beside a digital binding to the absent right_x: released is
\* emitted although the action stays at value 1
AbsentControlWitness ==
    /\ op = "evaluate"
    /\ "move" \in DOMAIN ret_states
    /\ actions["move"].bindings = Bound(<<AxisAnalog, RightDigital>>)
    /\ actions["move"].spec.analog_threshold = 0
    /\ Absent(RightDigital, raw)
    /\ ret_states["move"].value = One
    /\ ret_states["move"].released

----------------------------------------------------------------------------
(* C23: reading an action id that the InputState does not hold returns the *)
(* neutral ActionState (value 0, active, triggered and released false),    *)
(* throws nothing and leaves the InputState as it was; has_action is then  *)
(* still false for the id and value_or returns the caller's fallback.      *)

UnknownLookupIsNeutral ==
    [][(op' = "lookup" /\ arg_action' \notin DOMAIN ret_states)
        => /\ ret_states' = ret_states
           /\ error' = ""
           /\ ret_lookup'.state =
                [value |-> 0, active |-> FALSE, triggered |-> FALSE, released |-> FALSE]
           /\ ~ret_lookup'.has_action
           /\ ret_lookup'.value = ret_lookup'.fallback]_vars

\* a snapshot that holds move at value 1 is asked for dash with the fallback -1
UnknownLookupWitness ==
    /\ op = "lookup"
    /\ arg_action = "dash"
    /\ DOMAIN ret_states = {"move"}
    /\ ret_states["move"].value = One
    /\ ret_lookup.fallback = -One
    /\ ret_lookup.value = -One
    /\ ~ret_lookup.has_action

----------------------------------------------------------------------------
(* C24: for an action whose only binding is a toggle button, without       *)
(* smoothing, the emitted active flag is the committed toggle_state: the   *)
(* pressed state of the toggle control does not make the action active.    *)

ToggleActiveIsToggleState ==
    \A id \in ActionIds :
        (/\ EvaluatedNow(id)
         /\ OnlyToggle(actions, id)
         /\ actions[id].spec.smoothing_window = 0)
        => Emitted(id).active = actions[id].toggle_state

----------------------------------------------------------------------------
(* C25: the toggle bindings of an action share one toggle value: an        *)
(* evaluation of an action with a toggle binding commits the previous      *)
(* toggle_state flipped k times, k being the number of just-pressed toggle *)
(* controls (as claimed) / of toggle bindings whose control is             *)
(* just-pressed (as amended); with k = 0 the toggle_state is unchanged.    *)

\* the toggle button bindings of the action, by their place in the list
ToggleBindingsOf(a) ==
    {i \in 1..Len(a.bindings) :
        a.bindings[i].descriptor.kind = "Button" /\ a.bindings[i].descriptor.toggle}

\* those whose control has a press edge in the snapshot
PressedToggles(a, state) ==
    {i \in ToggleBindingsOf(a) : just_pressed(ButtonOf(a.bindings[i].descriptor, state))}

\* the controls with a press edge that a toggle binding of the action names
PressedToggleControls(a, state) ==
    {<<a.bindings[i].descriptor.device, a.bindings[i].descriptor.control>> :
        i \in PressedToggles(a, state)}

\* b flipped k times
Flipped(b, k) == IF k % 2 = 0 THEN b ELSE ~b

\* the claim as made
TogglesFlipPerControl ==
    [][\A id \in ActionIds :
        (EvaluatedNow(id)' /\ ToggleBindingsOf(actions[id]) # {})
        => actions'[id].toggle_state =
            Flipped(actions[id].toggle_state,
                    Cardinality(PressedToggleControls(actions[id], raw')))]_vars

\* the claim as amended
TogglesFlipPerBinding ==
    [][\A id \in ActionIds :
        (EvaluatedNow(id)' /\ ToggleBindingsOf(actions[id]) # {})
        => actions'[id].toggle_state =
            Flipped(actions[id].toggle_state,
                    Cardinality(PressedToggles(actions[id], raw')))]_vars

\* KeyA and KeyD just-pressed together while the toggle they share is on: it stays on
TogglesFlipWitness ==
    /\ op = "evaluate"
    /\ "move" \in DOMAIN ret_states
    /\ actions["move"].bindings = Bound(<<TogA, TogD>>)
    /\ just_pressed(KeyOf(raw, "KeyA"))
    /\ just_pressed(KeyOf(raw, "KeyD"))
    /\ actions["move"].toggle_state
    /\ ret_states["move"].value = One

----------------------------------------------------------------------------
(* C26: an evaluation of an action with toggle bindings commits as         *)
(* toggle_scale the scale of the last toggle binding in declared order,    *)
(* whichever control was pressed, and an action bound to toggles only,     *)
(* without smoothing, emits that scale (clamped) while the toggle is on    *)
(* and 0 while it is off.                                                  *)

\* the descriptor of the last toggle binding of the action
LastToggle(a) ==
    a.bindings[CHOOSE i \in ToggleBindingsOf(a) : \A j \in ToggleBindingsOf(a) : j <= i].descriptor

LastToggleScaleWins ==
    \A id \in ActionIds :
        (EvaluatedNow(id) /\ ToggleBindingsOf(actions[id]) # {})
        => /\ actions[id].toggle_scale = LastToggle(actions[id]).scale
           /\ (/\ ToggleBindingsOf(actions[id]) = 1..Len(actions[id].bindings)
               /\ actions[id].spec.smoothing_window = 0)
              => Emitted(id).value =
                    IF actions[id].toggle_state
                    THEN Clamp(LastToggle(actions[id]).scale, -One, One)
                    ELSE 0

\* the toggle is switched on by KeyD, of scale 1, and adds the 0.5 of the later KeyA toggle
LastToggleScaleWitness ==
    /\ op = "evaluate"
    /\ "move" \in DOMAIN ret_states
    /\ actions["move"].bindings = Bound(<<TogD, TogA>>)
    /\ just_pressed(KeyOf(raw, "KeyD"))
    /\ ~KeyOf(raw, "KeyA").pressed
    /\ actions["move"].toggle_state
    /\ actions["move"].toggle_scale = Half
    /\ ret_states["move"].value = Half

----------------------------------------------------------------------------
(* C27: an evaluation of an action that meets no toggle button binding     *)
(* resets its toggle memory to (toggle_state false, toggle_scale 1.0);     *)
(* rebind leaves the toggle memory as it is, and an evaluation with toggle *)
(* bindings and no press edge on them keeps an off toggle off: a toggle    *)
(* that was on before a rebind to bindings without toggles is off after    *)
(* the next evaluation and still off when a toggle is bound again.         *)

NoToggleResetsMemory ==
    [][\A id \in ActionIds :
        /\ (EvaluatedNow(id)' /\ ToggleBindingsOf(actions[id]) = {})
            => (~actions'[id].toggle_state /\ actions'[id].toggle_scale = One)
        /\ (op' = "rebind" /\ error' = "" /\ id \in DOMAIN actions)
            => /\ actions'[id].toggle_state = actions[id].toggle_state
               /\ actions'[id].toggle_scale = actions[id].toggle_scale
        /\ (/\ EvaluatedNow(id)'
            /\ ~actions[id].toggle_state
            /\ PressedToggles(actions[id], raw') = {})
            => ~actions'[id].toggle_state]_vars

\* move was loaded with the toggles of KeyA and KeyD, rebound to the button KeyD alone and
\* evaluated; then the toggles were bound again: the toggle is off, its scale is 1.0
NoToggleResetsWitness ==
    /\ op = "rebind"
    /\ "move" \in DOMAIN actions
    /\ arg_bindings = <<TogD, TogA>>
    /\ actions["move"].spec.bindings = <<TogA, TogD>>
    /\ ~actions["move"].toggle_state
    /\ actions["move"].toggle_scale = One
    /\ actions["move"].previous_value = One

----------------------------------------------------------------------------
(* C28: the emitted active flag is any_pressed OR |smoothed| > 1e-3: an    *)
(* action is active whenever one of its non-toggle buttons is pressed, its *)
(* toggle is on or one of its axes reads beyond its deadzone, also when    *)
(* the contributions cancel to the value 0, and whenever the emitted value *)
(* exceeds 1e-3 in magnitude, also without any input.                      *)

\* a non-toggle button of the action is pressed, or one of its axes reads beyond its deadzone
Driven(a, state) ==
    \E i \in 1..Len(a.bindings) :
        LET d == a.bindings[i].descriptor
        IN  IF d.kind = "Button"
            THEN ~d.toggle /\ ButtonOf(d, state).pressed
            ELSE Fabs(extract_axis_value(d, state)) > d.deadzone

ActiveIsPressedOrValue ==
    [][\A id \in ActionIds :
        EvaluatedNow(id)' =>
            /\ Emitted(id)'.active =
                (folded(actions[id], raw').any_pressed \/ Fabs(Emitted(id)'.value) > ActiveEpsilon)
            /\ Driven(actions[id], raw') => Emitted(id)'.active
            /\ (ToggleBindingsOf(actions[id]) # {} /\ actions'[id].toggle_state)
                => Emitted(id)'.active
            /\ Fabs(Emitted(id)'.value) > ActiveEpsilon => Emitted(id)'.active]_vars

\* KeyA held against left_x at its end: the value is 0 and the action is active
ActiveWitness ==
    /\ op = "evaluate"
    /\ "move" \in DOMAIN ret_states
    /\ actions["move"].bindings = Bound(<<BtnA, AxisAnalog>>)
    /\ actions["move"].spec.smoothing_window = 0
    /\ KeyOf(raw, "KeyA").pressed
    /\ raw.gamepad.axes["left_x"] = One
    /\ ret_states["move"].value = 0
    /\ ret_states["move"].active

----------------------------------------------------------------------------
\* C29: triggered starts as the OR of the bindings' trigger edges; when that is
\* false and analog_threshold > 0, triggered is exactly "|smoothed value| >=
\* analog_threshold and |previous_value| < analog_threshold", previous_value
\* being the smoothed value the action remembered before this evaluation; when
\* analog_threshold is 0 triggered is the OR of the binding edges alone.

\* some non-toggle button binding of a reads a control pressed this frame only
ButtonJustPressed(a, state) ==
    \E i \in 1..Len(a.bindings) :
        LET d == a.bindings[i].descriptor
        IN  /\ d.kind = "Button"
            /\ ~d.toggle
            /\ ButtonOf(d, state).pressed
            /\ ~ButtonOf(d, state).was_pressed

Crossed(value, previous_value, analog_threshold) ==
    Fabs(value) >= analog_threshold /\ Fabs(previous_value) < analog_threshold

SyntheticTriggerRule(id, any_triggered, analog_threshold) ==
    /\ (~any_triggered /\ analog_threshold > 0)
        => (Emitted(id)'.triggered
                = Crossed(Emitted(id)'.value, actions[id].previous_value, analog_threshold))
    /\ any_triggered => Emitted(id)'.triggered
    /\ analog_threshold = 0 => Emitted(id)'.triggered = any_triggered

SyntheticTrigger ==
    [][\A id \in ActionIds :
        EvaluatedNow(id)' =>
            /\ SyntheticTriggerRule(id, folded(actions[id], raw').any_triggered,
                                    actions[id].spec.analog_threshold)
            /\ ButtonJustPressed(actions[id], raw') => Emitted(id)'.triggered]_vars

\* left_x alone, read analog, pushed to its end from rest: no binding has an
\* edge, and the value crossing the threshold triggers the action
SyntheticTriggerWitness ==
    /\ op = "evaluate"
    /\ "move" \in DOMAIN ret_states
    /\ "move" \in DOMAIN actions
    /\ Len(actions["move"].bindings) = 1
    /\ actions["move"].bindings[1].descriptor = AxisAnalog
    /\ actions["move"].spec.analog_threshold > 0
    /\ raw.gamepad.axes["left_x"] = One
    /\ ret_states["move"].triggered
    /\ Fabs(ret_states["move"].value) >= actions["move"].spec.analog_threshold

----------------------------------------------------------------------------
\* C30: released starts as the OR of the bindings' release edges; when that is
\* false and analog_threshold > 0, released is exactly "|smoothed value| <=
\* analog_threshold / 2 and |previous_value| > analog_threshold / 2"; when
\* analog_threshold is 0 released is the OR of the binding edges alone.

\* some non-toggle button binding of a reads a control let go this frame
ButtonJustReleased(a, state) ==
    \E i \in 1..Len(a.bindings) :
        LET d == a.bindings[i].descriptor
        IN  /\ d.kind = "Button"
            /\ ~d.toggle
            /\ ~ButtonOf(d, state).pressed
            /\ ButtonOf(d, state).was_pressed

\* |value| <= analog_threshold / 2 and |previous_value| > analog_threshold / 2
FellBack(value, previous_value, analog_threshold) ==
    /\ 2 * Fabs(value) <= analog_threshold
    /\ 2 * Fabs(previous_value) > analog_threshold

SyntheticReleaseRule(id, any_released, analog_threshold) ==
    /\ (~any_released /\ analog_threshold > 0)
        => (Emitted(id)'.released
                = FellBack(Emitted(id)'.value, actions[id].previous_value, analog_threshold))
    /\ any_released => Emitted(id)'.released
    /\ analog_threshold = 0 => Emitted(id)'.released = any_released

SyntheticRelease ==
    [][\A id \in ActionIds :
        EvaluatedNow(id)' =>
            /\ SyntheticReleaseRule(id, folded(actions[id], raw').any_released,
                                    actions[id].spec.analog_threshold)
            /\ ButtonJustReleased(actions[id], raw') => Emitted(id)'.released]_vars

\* left_x alone, read analog, back at rest: no binding has an edge, and the
\* value falling to half the threshold or less releases the action
SyntheticReleaseWitness ==
    /\ op = "evaluate"
    /\ "move" \in DOMAIN ret_states
    /\ "move" \in DOMAIN actions
    /\ Len(actions["move"].bindings) = 1
    /\ actions["move"].bindings[1].descriptor = AxisAnalog
    /\ actions["move"].spec.analog_threshold > 0
    /\ raw.gamepad.axes["left_x"] = 0
    /\ ret_states["move"].released
    /\ ret_states["move"].value = 0

----------------------------------------------------------------------------
\* C31: the hysteresis bands prevent flicker: for an action with only
\* analog-interpretation axis bindings and analog_threshold > 0 the synthetic
\* edges alternate: between two evaluations that trigger there is one that
\* releases, and between two that release there is one that triggers. Stated
\* with the history last_edge: since the table was loaded, no evaluation
\* emits the edge the action emitted last.

\* id is loaded with analog-interpretation axis bindings only and a threshold
OnlyAnalogAxes(id) ==
    /\ id \in DOMAIN actions
    /\ actions[id].spec.analog_threshold > 0
    /\ Len(actions[id].bindings) > 0
    /\ \A i \in 1..Len(actions[id].bindings) :
            /\ actions[id].bindings[i].descriptor.kind = "Axis"
            /\ actions[id].bindings[i].descriptor.interpretation = "Analog"

SyntheticEdgesAlternate ==
    [][\A id \in DOMAIN last_edge :
        (OnlyAnalogAxes(id) /\ EvaluatedNow(id)')
        => /\ Emitted(id)'.triggered => last_edge[id] # "triggered"
           /\ Emitted(id)'.released => last_edge[id] # "released"]_vars

----------------------------------------------------------------------------
\* C32: a digital axis binding takes its edges against the action's previous
\* smoothed output: a trigger when its reading is beyond the deadzone and
\* |previous_value| <= deadzone, a release when the reading is within the
\* deadzone and |previous_value| > deadzone; a digital axis held beyond its
\* deadzone therefore triggers once, on the frame it leaves the deadzone, and
\* releases once, on the frame it returns.

\* the scaled reading of descriptor d in the snapshot is beyond d's deadzone
Beyond(d, state) == Fabs(extract_axis_value(d, state)) > d.deadzone

DigitalBindingsOf(a) ==
    {i \in 1..Len(a.bindings) :
        /\ a.bindings[i].descriptor.kind # "Button"
        /\ a.bindings[i].descriptor.interpretation = "Digital"}

\* the rule of the binding: the edges it sets reach the emitted state
DigitalEdgeRule(a, state, emitted) ==
    \A i \in DigitalBindingsOf(a) :
        LET d == a.bindings[i].descriptor
        IN  /\ (Beyond(d, state) /\ Fabs(a.previous_value) <= d.deadzone) => emitted.triggered
            /\ (~Beyond(d, state) /\ Fabs(a.previous_value) > d.deadzone) => emitted.released

\* move is bound to one digital axis and nothing else
OneDigitalAxis == "move" \in DOMAIN actions /\ DigitalBindingsOf(actions["move"]) = {1}
                    /\ Len(actions["move"].bindings) = 1

\* the reading of move's binding was beyond the deadzone in the frame before:
\* after a load there is no frame before
WasBeyond ==
    op # "load" /\ Beyond(actions["move"].bindings[1].descriptor, raw)

\* the edges of this frame are those of the reading leaving and entering the deadzone
EdgesOfTheReading(d, emitted) ==
    /\ emitted.triggered = (Beyond(d, raw') /\ ~WasBeyond)
    /\ emitted.released = (~Beyond(d, raw') /\ WasBeyond)

\* as the claim states it: whatever the smoothing of the action
DigitalAxisEdgesOnce ==
    [][(OneDigitalAxis /\ (op = "load" \/ EvaluatedNow("move")) /\ EvaluatedNow("move")')
        => EdgesOfTheReading(actions["move"].bindings[1].descriptor, Emitted("move")')]_vars

\* amended: the rule holds of every digital binding, and the edges are those of
\* the reading when the action is not smoothed
DigitalAxisEdgesOnceUnsmoothed ==
    [][/\ \A id \in ActionIds :
            EvaluatedNow(id)' => DigitalEdgeRule(actions[id], raw', Emitted(id)')
       /\ (/\ OneDigitalAxis
           /\ actions["move"].spec.smoothing_window = 0
           /\ (op = "load" \/ EvaluatedNow("move"))
           /\ EvaluatedNow("move")')
            => EdgesOfTheReading(actions["move"].bindings[1].descriptor, Emitted("move")')]_vars

\* left_x, read digital and unsmoothed, back within its deadzone: the action releases
DigitalAxisEdgesWitness ==
    /\ op = "evaluate"
    /\ OneDigitalAxis
    /\ actions["move"].spec.smoothing_window = 0
    /\ ~Beyond(actions["move"].bindings[1].descriptor, raw)
    /\ ret_states["move"].released
    /\ ~ret_states["move"].triggered

----------------------------------------------------------------------------
\* C33: the scaled reading of an Axis or Pointer binding is replaced by 0 when
\* its magnitude is <= the binding's deadzone; an analog-interpretation binding
\* adds the filtered reading unchanged to the accumulated value and sets
\* any_pressed exactly when the reading is beyond the deadzone, so a reading
\* inside the deadzone contributes nothing and does not make the action active.

\* the last binding of a is an axis read analog
LastIsAnalogAxis(a) ==
    /\ Len(a.bindings) > 0
    /\ a.bindings[Len(a.bindings)].descriptor.kind # "Button"
    /\ a.bindings[Len(a.bindings)].descriptor.interpretation = "Analog"

\* what the binding d adds to the locals `before` to give the locals `after`
AnalogContribution(d, read, before, after) ==
    /\ after.value = FAdd(before.value, IF Fabs(read) <= d.deadzone THEN 0 ELSE read)
    /\ after.any_pressed = (before.any_pressed \/ Fabs(read) > d.deadzone)
    /\ after.any_triggered = before.any_triggered
    /\ after.any_released = before.any_released

\* with the reading inside the deadzone the action gives what it gives without d
InertInsideDeadzone(d, read, a, emitted, left) ==
    Fabs(read) <= d.deadzone
        => /\ emitted = compute_state(Without(a, Len(a.bindings)), raw').state
           /\ left.previous_value = emitted.value
           /\ (a.spec.smoothing_window = 0 /\ Len(a.bindings) = 1)
                => (emitted.value = 0 /\ ~emitted.active)

DeadzoneFiltersAnalog ==
    [][\A id \in ActionIds :
        (EvaluatedNow(id)' /\ LastIsAnalogAxis(actions[id])) =>
            /\ AnalogContribution(actions[id].bindings[Len(actions[id].bindings)].descriptor,
                    extract_axis_value(
                        actions[id].bindings[Len(actions[id].bindings)].descriptor, raw'),
                    FoldBindings(InitialLocals(actions[id]), 1,
                                 Without(actions[id], Len(actions[id].bindings)), raw'),
                    FoldBindings(InitialLocals(actions[id]), 1, actions[id], raw'))
            /\ InertInsideDeadzone(
                    actions[id].bindings[Len(actions[id].bindings)].descriptor,
                    extract_axis_value(
                        actions[id].bindings[Len(actions[id].bindings)].descriptor, raw'),
                    actions[id], Emitted(id)', actions'[id])]_vars

\* left_x on its deadzone 0.25, read analog by the last binding: the reading
\* contributes nothing, and the unsmoothed action is at rest
DeadzoneFiltersWitness ==
    /\ op = "evaluate"
    /\ "move" \in DOMAIN ret_states
    /\ "move" \in DOMAIN actions
    /\ actions["move"].spec.smoothing_window = 0
    /\ LastIsAnalogAxis(actions["move"])
    /\ raw.gamepad.axes["left_x"] = Quarter
    /\ ret_states["move"].value = 0
    /\ ~ret_states["move"].active

----------------------------------------------------------------------------
\* C34: when smoothing_window is 0, or delta_time is 0 while smoothing_window
\* is positive, the emitted value is the clamped accumulated value of this
\* frame and does not depend on previous_value: a frame of no length takes an
\* otherwise smoothed action straight to its target.

Unsmoothed(a, state) == a.spec.smoothing_window = 0 \/ state.delta_time = 0

\* the value a emits from the snapshot when it remembers pv as its last value
ValueFrom(a, pv, state) == compute_state([a EXCEPT !.previous_value = pv], state).state.value

UnsmoothedValueIsTarget ==
    [][\A id \in ActionIds :
        (EvaluatedNow(id)' /\ Unsmoothed(actions[id], raw')) =>
            /\ Emitted(id)'.value = ClampValue(folded(actions[id], raw').value)
            /\ actions'[id].previous_value = Emitted(id)'.value
            /\ \A pv \in {-One, 0, Half, One} :
                    ValueFrom(actions[id], pv, raw') = Emitted(id)'.value
            /\ (Len(actions[id].bindings) = 1 /\ LastIsAnalogAxis(actions[id]))
                => Emitted(id)'.value
                        = axis_value(raw'.gamepad.axes, "left_x")
                            * (IF Fabs(axis_value(raw'.gamepad.axes, "left_x")) > Quarter
                               THEN 1 ELSE 0)]_vars

\* left_x alone at its end in a frame of no length, the action smoothed over a
\* window: the value is 1 at once, and the trigger shows that it came from
\* below the threshold
UnsmoothedValueWitness ==
    /\ op = "evaluate"
    /\ "move" \in DOMAIN ret_states
    /\ "move" \in DOMAIN actions
    /\ actions["move"].spec.smoothing_window > 0
    /\ actions["move"].spec.analog_threshold > 0
    /\ Len(actions["move"].bindings) = 1
    /\ LastIsAnalogAxis(actions["move"])
    /\ raw.delta_time = 0
    /\ raw.gamepad.axes["left_x"] = One
    /\ ret_states["move"].value = One
    /\ ret_states["move"].triggered

----------------------------------------------------------------------------
\* C35: the order of the bindings of an action matters only for the toggle
\* magnitude: two binding lists that are permutations of each other and have
\* the same last toggle binding (or none) give, from the same memory and
\* snapshot, the same ActionState and the same updated memory; and the emitted
\* snapshot does not depend on the order of the actions in the table.

\* the action a with its bindings in the order p
Reordered(a, p) == [a EXCEPT !.bindings = [i \in 1..Len(a.bindings) |-> a.bindings[p[i]]]]

\* the last toggle binding of both orders is the same descriptor
SameLastToggle(a, b) ==
    \/ ToggleBindingsOf(a) = {}
    \/ LastToggle(a) = LastToggle(b)

\* the bindings of a that add a non-zero amount inside the loop
Contributing(a, state) ==
    {i \in 1..Len(a.bindings) :
        LET d == a.bindings[i].descriptor
        IN  IF d.kind = "Button"
            THEN ~d.toggle /\ ButtonOf(d, state).pressed /\ d.scale # 0
            ELSE Fabs(extract_axis_value(d, state)) > d.deadzone}

\* b gives the ActionState emitted and leaves the memory left
SameOutcome(b, state, emitted, left) ==
    compute_state(b, state) = [state |-> emitted, action |-> [left EXCEPT !.bindings = b.bindings]]

Reversed(spec) ==
    [actions |-> [i \in 1..Len(spec.actions) |-> spec.actions[Len(spec.actions) + 1 - i]]]

\* a table of distinct ids loads the same store in the reverse order
TableOrderIrrelevant ==
    (op' = "load" /\ Cardinality(TableIds(arg_spec')) = Len(arg_spec'.actions))
        => load(actions, Reversed(arg_spec')) = actions'

\* as the claim states it
BindingOrderIrrelevant ==
    [][/\ TableOrderIrrelevant
       /\ \A id \in ActionIds :
            EvaluatedNow(id)' =>
                \A p \in Orders(1..Len(actions[id].bindings)) :
                    SameLastToggle(actions[id], Reordered(actions[id], p))
                        => SameOutcome(Reordered(actions[id], p), raw',
                                       Emitted(id)', actions'[id])]_vars

\* amended: when at most two bindings contribute in the frame
BindingOrderIrrelevantForTwo ==
    [][/\ TableOrderIrrelevant
       /\ \A id \in ActionIds :
            (EvaluatedNow(id)' /\ Cardinality(Contributing(actions[id], raw')) <= 2) =>
                \A p \in Orders(1..Len(actions[id].bindings)) :
                    SameLastToggle(actions[id], Reordered(actions[id], p))
                        => SameOutcome(Reordered(actions[id], p), raw',
                                       Emitted(id)', actions'[id])]_vars

\* KeyD, bound twice, just pressed with KeyA at rest: two bindings contribute
\* beside a third that does not, and every order gives the value 1, triggered
BindingOrderWitness ==
    /\ op = "evaluate"
    /\ "move" \in DOMAIN ret_states
    /\ "move" \in DOMAIN actions
    /\ Len(actions["move"].bindings) = 3
    /\ ToggleBindingsOf(actions["move"]) = {}
    /\ Cardinality(Contributing(actions["move"], raw)) = 2
    /\ KeyOf(raw, "KeyD") = ButtonState(TRUE, FALSE)
    /\ ret_states["move"].value = One
    /\ ret_states["move"].triggered

----------------------------------------------------------------------------
\* C36: evaluate_action on a loaded action is not a read-only query: each call
\* advances that action's memory by one frame step, so evaluate_action and
\* then evaluate with the same snapshot steps the action twice: a toggle whose
\* control is just-pressed in that snapshot is flipped twice and ends in its
\* original state, and a smoothed value advances by two interpolation steps.

\* one interpolation step from the remembered value pv towards the target of a
InterpolatedFrom(a, pv, state) ==
    FAdd(pv, FMul(FSub(clamped_value(a, state), pv),
                  SmoothingT(state.delta_time, a.spec.smoothing_window)))

\* the call of evaluate_action on `before` gave `first` and left `after`
AdvancedByOne(before, after, first, state) ==
    /\ after.previous_value = first.value
    /\ after.previous_active = first.active
    /\ (after.bindings = Bound(<<TogD>>) /\ just_pressed(KeyOf(state, "KeyD")))
        => /\ after.toggle_state = ~before.toggle_state
           /\ compute_state(after, state).action.toggle_state = before.toggle_state
    /\ (before.spec.smoothing_window > 0 /\ state.delta_time > 0)
        => /\ first.value = InterpolatedFrom(before, before.previous_value, state)
           /\ compute_state(after, state).state.value
                = InterpolatedFrom(after, first.value, state)

\* evaluate follows evaluate_action of id with the same snapshot
SteppedAgain(id) ==
    /\ ret_states'[id] = compute_state(actions[id], raw).state
    /\ actions'[id].previous_value = ret_states'[id].value
    /\ (actions[id].bindings = Bound(<<TogD>>) /\ just_pressed(KeyOf(raw, "KeyD")))
        => actions'[id].toggle_state = ~actions[id].toggle_state
    /\ (actions[id].spec.smoothing_window > 0 /\ raw.delta_time > 0)
        => ret_states'[id].value = InterpolatedFrom(actions[id], ret_state.value, raw)

EvaluateOneAdvancesMemory ==
    [][/\ (op' = "evaluate_action" /\ arg_action' \in DOMAIN actions)
            => AdvancedByOne(actions[arg_action'], actions'[arg_action'], ret_state', raw')
       /\ (/\ op = "evaluate_action"
           /\ arg_action \in DOMAIN actions
           /\ op' = "evaluate"
           /\ raw' = raw)
            => SteppedAgain(arg_action)]_vars

\* evaluate_action of move, smoothed over a window and bound to KeyD held, from
\* the value 0.5 an earlier step left: the call returns 0.75 and remembers it
EvaluateOneAdvancesWitness ==
    /\ op = "evaluate_action"
    /\ arg_action = "move"
    /\ "move" \in DOMAIN actions
    /\ actions["move"].bindings = Bound(<<BtnD>>)
    /\ actions["move"].spec.smoothing_window = One
    /\ KeyOf(raw, "KeyD").pressed
    /\ ret_state.value = 3 * Quarter
    /\ actions["move"].previous_value = 3 * Quarter

----------------------------------------------------------------------------
\* C37: the smoothed value never overshoots: in every evaluation the emitted
\* value lies in the closed interval between the action's previous_value and
\* this frame's clamped target, and with a constant target and delta_time > 0
\* the distance |value - target| never increases from one frame to the next.

\* v lies in the closed interval between a and b
Between(a, v, b) == (a <= v /\ v <= b) \/ (b <= v /\ v <= a)

\* the distance to the target does not grow in the step from pv to v
NoFarther(pv, v, target) == Fabs(v - target) <= Fabs(pv - target)

\* as the claim states it
SmoothingNeverOvershoots ==
    [][\A id \in ActionIds :
        EvaluatedNow(id)' =>
            /\ Between(actions[id].previous_value, Emitted(id)'.value,
                       clamped_value(actions[id], raw'))
            /\ NoFarther(actions[id].previous_value, Emitted(id)'.value,
                         clamped_value(actions[id], raw'))]_vars

\* v lies between pv and the target, or beyond the target by no more than the
\* spacing of the floats at the magnitude of target - pv, and within the
\* interval when that difference is a float
WithinRounding(pv, v, target) ==
    /\ Between(pv, v, target) \/ Fabs(v - target) <= Ulp(Fabs(target - pv))
    /\ FSub(target, pv) = target - pv => Between(pv, v, target)

\* amended: up to the rounding of the subtraction
SmoothingStaysWithinRounding ==
    [][\A id \in ActionIds :
        EvaluatedNow(id)' =>
            /\ WithinRounding(actions[id].previous_value, Emitted(id)'.value,
                              clamped_value(actions[id], raw'))
            /\ NoFarther(actions[id].previous_value, Emitted(id)'.value,
                         clamped_value(actions[id], raw'))]_vars

\* left_x alone at 0.3125 in a frame longer than the window: the smoothed value
\* has passed the target by one step of the grid
SmoothingOvershootWitness ==
    /\ op = "evaluate"
    /\ "move" \in DOMAIN ret_states
    /\ "move" \in DOMAIN actions
    /\ actions["move"].bindings = Bound(<<AxisAnalog>>)
    /\ actions["move"].spec.smoothing_window > 0
    /\ raw.delta_time > actions["move"].spec.smoothing_window
    /\ raw.gamepad.axes["left_x"] = ThreeTenths
    /\ ret_states["move"].value > ThreeTenths

----------------------------------------------------------------------------
\* C38: an action that has only analog-interpretation axis bindings, with any
\* analog_threshold >= 0, never reports triggered and released in the same
\* evaluation.

\* id is loaded with analog-interpretation axis bindings and nothing else
AnalogAxesAlone(id) ==
    /\ id \in DOMAIN actions
    /\ Len(actions[id].bindings) > 0
    /\ \A i \in 1..Len(actions[id].bindings) :
            /\ actions[id].bindings[i].descriptor.kind = "Axis"
            /\ actions[id].bindings[i].descriptor.interpretation = "Analog"
            /\ ~actions[id].bindings[i].descriptor.toggle

AnalogEdgesExclusive ==
    \A id \in ActionIds :
        (EvaluatedNow(id) /\ AnalogAxesAlone(id) /\ actions[id].spec.analog_threshold >= 0)
            => ~(Emitted(id).triggered /\ Emitted(id).released)

\* the stick falls from beyond the threshold to rest: released and no trigger
AnalogEdgesWitness ==
    /\ EvaluatedNow("move")
    /\ AnalogAxesAlone("move")
    /\ actions["move"].spec.analog_threshold = ThreeFifths
    /\ raw.gamepad.axes["left_x"] = 0
    /\ Emitted("move").released
    /\ ~Emitted("move").triggered

----------------------------------------------------------------------------
\* C39: after load the store holds one entry per distinct action id of the
\* table: of several action specs with the same id the first in table order
\* is kept, with default memory, the later ones are dropped without an
\* error, and evaluate emits exactly one ActionState per distinct id.

\* the position of the first action spec of the table that carries id
FirstWithId(spec, id) ==
    CHOOSE i \in 1..Len(spec.actions) :
        /\ spec.actions[i].id = id
        /\ \A j \in 1..(i - 1) : spec.actions[j].id # id

FirstDuplicateKept ==
    [][/\ op' = "load" =>
            /\ error' = ""
            /\ DOMAIN actions' = TableIds(arg_spec')
            /\ \A id \in TableIds(arg_spec') :
                /\ actions'[id].spec = arg_spec'.actions[FirstWithId(arg_spec', id)]
                /\ actions'[id].bindings =
                        Bound(arg_spec'.actions[FirstWithId(arg_spec', id)].bindings)
                /\ DefaultMemory(actions'[id])
       /\ (op = "load" /\ op' = "evaluate") =>
            /\ DOMAIN ret_states' = TableIds(arg_spec)
            /\ Cardinality(DOMAIN ret_states') <= Len(arg_spec.actions)]_vars

\* a table whose two action specs are both called move, KeyD as a button in
\* the first and as a toggle in the second: the store holds the button
FirstDuplicateWitness ==
    /\ op = "load"
    /\ Len(arg_spec.actions) = 2
    /\ arg_spec.actions[1].id = "move"
    /\ arg_spec.actions[2].id = "move"
    /\ arg_spec.actions[1].bindings = <<BtnD>>
    /\ arg_spec.actions[2].bindings = <<TogD>>
    /\ DOMAIN actions = {"move"}
    /\ actions["move"].bindings = Bound(<<BtnD>>)
    /\ error = ""

----------------------------------------------------------------------------
\* C40: a digital axis binding with a negative scale contributes |scale| with
\* the sign of the raw device reading: the negative scale does not invert the
\* axis, and a keyboard key bound as a digital axis with scale -1 contributes
\* +1 when pressed.

\* id is loaded with one digital axis binding of negative scale and nothing else
OnlyNegativeDigitalAxis(id) ==
    /\ id \in DOMAIN actions
    /\ Len(actions[id].bindings) = 1
    /\ actions[id].bindings[1].descriptor.kind = "Axis"
    /\ actions[id].bindings[1].descriptor.interpretation = "Digital"
    /\ actions[id].bindings[1].descriptor.device \in {"Gamepad", "Keyboard"}
    /\ actions[id].bindings[1].descriptor.scale < 0

\* what the device reports for the control of d, before any scale: the stick's
\* position, or 1 for a key that is down
RawReading(d, state) ==
    IF d.device = "Keyboard"
    THEN (IF KeyOf(state, d.control).pressed THEN One ELSE 0)
    ELSE axis_value(state.gamepad.axes, d.control)

\* |scale| with the sign of the raw reading, when the scaled reading is beyond
\* the deadzone
UninvertedContribution(d, state) ==
    IF Fabs(FMul(RawReading(d, state), d.scale)) <= d.deadzone THEN 0
    ELSE IF RawReading(d, state) > 0 THEN Fabs(d.scale)
    ELSE -Fabs(d.scale)

NegativeScaleKeepsSign ==
    [][\A id \in ActionIds :
        (OnlyNegativeDigitalAxis(id) /\ EvaluatedNow(id)')
        => /\ clamped_value(actions[id], raw') =
                    UninvertedContribution(actions[id].bindings[1].descriptor, raw')
           /\ (actions[id].spec.smoothing_window = 0 \/ raw'.delta_time = 0)
                => Emitted(id)'.value =
                        UninvertedContribution(actions[id].bindings[1].descriptor, raw')]_vars

\* KeyD bound as a digital axis of scale -1 and held down: move is emitted at +1
NegativeScaleWitness ==
    /\ op = "evaluate"
    /\ "move" \in DOMAIN ret_states
    /\ OnlyNegativeDigitalAxis("move")
    /\ actions["move"].bindings[1].descriptor.device = "Keyboard"
    /\ actions["move"].bindings[1].descriptor.scale = -One
    /\ actions["move"].spec.smoothing_window = 0
    /\ KeyOf(raw, "KeyD").pressed
    /\ ret_states["move"].value = One

====
